---- MODULE Spec2Model ----
(***************************************************************************)
(* Model of the HVAC scanner: the response normalisation of OpenAIService  *)
(* in src/src/services/openai.ts, the screens of the application that      *)
(* hand equipment records and inspection reports to one another, the       *)
(* camera of CameraCapture and the storage hook.  Text is a sequence of    *)
(* one-character                                                           *)
(* strings; JSON values are tagged records; JavaScript's truthiness,       *)
(* property reads and writes, Object.keys and object spread are modelled   *)
(* as the language defines them.                                           *)
(***************************************************************************)
EXTENDS Integers, Sequences, FiniteSets, TLC

VARIABLES
  pc,              \* where the call of scanLabel stands
  now,             \* the clock, Date.now()
  startTime,       \* line 31
  content,         \* line 165: the model's answer
  cleanedContent,  \* line 170
  parsed,          \* what JSON.parse returned at line 175 or 214, as returned
  path,            \* which of the two parses gave the result
  result,          \* what the call resolved with
  error,           \* what the call rejected with
  requests,        \* the requests the call has sent to the model
  currentScreen,   \* Home: the screen shown
  currentEquipment,\* Home: the equipment record in hand, or null
  currentReport,   \* Home: the inspection report in hand, or null
  formData,        \* EquipmentForm: the state of the form
  saved,           \* the records EquipmentForm has passed to onSave, in order
  reports,         \* useLocalStorage: the object store "reports", by id
  dbError,         \* useLocalStorage: the hook's error
  captures,        \* CameraCapture: the photographs taken or uploaded
  isProcessing,    \* CameraCapture: the flag of the overlay
  captureError,    \* CameraCapture: its state error, a message or null
  scans,           \* the calls and timers the CameraCaptures have started
  mounted,         \* a CameraCapture is mounted (the camera, on its own)
  facingMode,      \* CameraCapture: the camera asked for
  stream,          \* CameraCapture: its state stream, 0 for null
  cameraError,     \* CameraCapture: its state cameraError
  effectStream,    \* the stream the cleanup of the last effect closes over
  tracks,          \* every stream getUserMedia gave: TRUE while its tracks run
  mediaRequests,   \* the calls of getUserMedia not yet settled
  operations,      \* useLocalStorage: the calls of performDBOperation
  isLoading        \* useLocalStorage: the hook's flag

callVars == <<pc, startTime, content, cleanedContent, parsed, path, result, error,
              requests>>
appVars == <<currentScreen, currentEquipment, currentReport, formData, saved, reports,
             dbError>>
capVars == <<captures, isProcessing, captureError, scans>>
camVars == <<mounted, facingMode, stream, cameraError, effectStream, tracks,
             mediaRequests>>
dbVars == <<operations, isLoading>>
vars == <<pc, now, startTime, content, cleanedContent, parsed, path, result, error,
          requests, currentScreen, currentEquipment, currentReport, formData, saved,
          reports, dbError, captures, isProcessing, captureError, scans, mounted,
          facingMode, stream, cameraError, effectStream, tracks, mediaRequests,
          operations, isLoading>>

(***************************************************************************)
(* Bounds of the model.                                                    *)
(***************************************************************************)
\* A CameraCapture holds at most MaxCaptures captures.
MaxCaptures == 2
\* The CameraCaptures start at most MaxScans calls and timers.
MaxScans == 2
\* getUserMedia is called at most MaxStreams times without a rejection.
MaxStreams == 3
\* performDBOperation is called at most MaxOperations times.
MaxOperations == 3
\* The clock (Date.now()) runs from 0 to MaxClock.
MaxClock == 1
\* A response's structuredData holds at most MaxFields keys.
MaxFields == 2
\* The equipment form is submitted at most MaxSaves times.
MaxSaves == 2

(***************************************************************************)
(* JavaScript values.                                                      *)
(***************************************************************************)
Undef == [t |-> "undef"]
Null == [t |-> "null"]
Bool(b) == [t |-> "bool", b |-> b]
\* The decimal number m / 10^e, with no trailing zero in the fraction.
Num(m, e) == [t |-> "num", m |-> m, e |-> e]
Str(s) == [t |-> "str", s |-> s]
Arr(a) == [t |-> "arr", a |-> a]
Obj(o) == [t |-> "obj", o |-> o]
DateAt(ms) == [t |-> "date", ms |-> ms]
EmptyProps == <<>>
EmptyObj == Obj(EmptyProps)

Get(p, k) == IF k \in DOMAIN p THEN p[k] ELSE Undef
Put(p, k, v) == [x \in (DOMAIN p) \cup {k} |-> IF x = k THEN v ELSE p[x]]
\* As Spread, but the keys of p stay as they are.
SpreadUnder(p, q) == [x \in (DOMAIN p) \cup (DOMAIN q) |-> IF x \in DOMAIN p THEN p[x] ELSE q[x]]
\* { ...p, ...q }: the keys of q replace those of p.
Spread(p, q) == [x \in (DOMAIN p) \cup (DOMAIN q) |-> IF x \in DOMAIN q THEN q[x] ELSE p[x]]

\* !!v
Truthy(v) ==
  CASE v.t \in {"undef", "null"} -> FALSE
    [] v.t = "bool" -> v.b
    [] v.t = "num" -> v.m # 0
    [] v.t = "str" -> v.s # <<>>
    [] OTHER -> TRUE

DigitChar == <<"0", "1", "2", "3", "4", "5", "6", "7", "8", "9">>
Digits == {DigitChar[i] : i \in 1..10}
DigitVal(c) == (CHOOSE i \in 1..10 : DigitChar[i] = c) - 1

RECURSIVE DecStr(_)
DecStr(n) ==
  IF n < 10 THEN <<DigitChar[n + 1]>>
  ELSE DecStr(n \div 10) \o <<DigitChar[(n % 10) + 1]>>

\* The own enumerable properties of a value: what Object.keys lists and what
\* an object spread copies.
Entries(v) ==
  CASE v.t = "obj" -> v.o
    [] v.t = "arr" ->
         [k \in {DecStr(i - 1) : i \in 1..Len(v.a)} |->
            v.a[CHOOSE i \in 1..Len(v.a) : DecStr(i - 1) = k]]
    [] v.t = "str" ->
         [k \in {DecStr(i - 1) : i \in 1..Len(v.s)} |->
            Str(<<v.s[CHOOSE i \in 1..Len(v.s) : DecStr(i - 1) = k]>>)]
    [] OTHER -> EmptyProps

(***************************************************************************)
(* Property names and string constants of the code.                        *)
(***************************************************************************)
K_structuredData == <<"s","t","r","u","c","t","u","r","e","d","D","a","t","a">>
K_fieldMetadata == <<"f","i","e","l","d","M","e","t","a","d","a","t","a">>
K_confidence == <<"c","o","n","f","i","d","e","n","c","e">>
K_extractedText == <<"e","x","t","r","a","c","t","e","d","T","e","x","t">>
K_source == <<"s","o","u","r","c","e">>
K_inferenceBasis == <<"i","n","f","e","r","e","n","c","e","B","a","s","i","s">>
K_id == <<"i","d">>
K_createdAt == <<"c","r","e","a","t","e","d","A","t">>
K_updatedAt == <<"u","p","d","a","t","e","d","A","t">>
K_brand == <<"b","r","a","n","d">>
K_btu == <<"b","t","u">>
S_scanned == <<"s","c","a","n","n","e","d">>
S_ai_inferred == <<"a","i","_","i","n","f","e","r","r","e","d">>
K_equipmentType == <<"e","q","u","i","p","m","e","n","t","T","y","p","e">>
K_equipmentDescription ==
  <<"e","q","u","i","p","m","e","n","t","D","e","s","c","r","i","p","t","i","o","n">>
K_failures == <<"f","a","i","l","u","r","e","s">>
K_condition == <<"c","o","n","d","i","t","i","o","n">>
K_urgency == <<"u","r","g","e","n","c","y">>
K_recommendations == <<"r","e","c","o","m","m","e","n","d","a","t","i","o","n","s">>
K_type == <<"t","y","p","e">>

(***************************************************************************)
(* String operations.                                                      *)
(***************************************************************************)
Ws == {" ", "\n", "\t", "\r"}

StartsWith(s, w) == Len(w) <= Len(s) /\ SubSeq(s, 1, Len(w)) = w
EndsWith(s, w) == Len(w) <= Len(s) /\ SubSeq(s, Len(s) - Len(w) + 1, Len(s)) = w
\* s.substring(a, b), 0-based, end exclusive.
Substring(s, a, b) ==
  LET lo == IF a < Len(s) THEN a ELSE Len(s)
      hi == IF b < Len(s) THEN b ELSE Len(s)
  IN SubSeq(s, lo + 1, hi)

RECURSIVE TrimStart(_)
TrimStart(s) == IF s # <<>> /\ Head(s) \in Ws THEN TrimStart(Tail(s)) ELSE s
RECURSIVE TrimEnd(_)
TrimEnd(s) ==
  IF s # <<>> /\ s[Len(s)] \in Ws THEN TrimEnd(SubSeq(s, 1, Len(s) - 1)) ELSE s
Trim(s) == TrimEnd(TrimStart(s))

\* The grave accent (U+0060), which a TLA+ string cannot hold: one character
\* of a text, like any other.
Grave == "grave"
Fence == <<Grave, Grave, Grave>>
FenceJson == Fence \o <<"j", "s", "o", "n">>

\* Lines 554-558.
StripOpening(c) ==
  IF StartsWith(c, FenceJson) THEN Substring(c, 7, Len(c))
  ELSE IF StartsWith(c, Fence) THEN Substring(c, 3, Len(c))
  ELSE c

\* As StripClosing, but the closing fence is left where it is.
StripClosingNever(c) == c

\* Lines 560-562.
StripClosing(c) ==
  IF EndsWith(c, Fence) THEN Substring(c, 0, Len(c) - 3) ELSE c

cleanJsonResponse(c) == Trim(StripClosing(StripOpening(Trim(c))))

(***************************************************************************)
(* JSON.parse.                                                             *)
(***************************************************************************)
NoParse == [ok |-> FALSE, v |-> Undef, i |-> 0]
Parsed(v, i) == [ok |-> TRUE, v |-> v, i |-> i]

RECURSIVE SkipWs(_, _)
SkipWs(s, i) == IF i <= Len(s) /\ s[i] \in Ws THEN SkipWs(s, i + 1) ELSE i

Matches(s, i, w) == i + Len(w) - 1 <= Len(s) /\ SubSeq(s, i, i + Len(w) - 1) = w

\* The index of the quote closing a string whose text starts at j; 0 when the
\* string is not closed or holds a control character.
RECURSIVE CloseQuote(_, _)
CloseQuote(s, j) ==
  IF j > Len(s) THEN 0
  ELSE IF s[j] = "\"" THEN j
  ELSE IF s[j] \in {"\n", "\t", "\r", "\\"} THEN 0
  ELSE CloseQuote(s, j + 1)

StringTo(s, i, j) ==
  IF j = 0 THEN NoParse ELSE Parsed(Str(SubSeq(s, i + 1, j - 1)), j + 1)

\* The string whose opening quote is at i.
ParseString(s, i) == StringTo(s, i, CloseQuote(s, i + 1))

\* The digits from i on: their value n, their count, and the next index.
RECURSIVE ScanDigits(_, _, _, _)
ScanDigits(s, i, n, cnt) ==
  IF i <= Len(s) /\ s[i] \in Digits
    THEN ScanDigits(s, i + 1, n * 10 + DigitVal(s[i]), cnt + 1)
    ELSE [n |-> n, cnt |-> cnt, i |-> i]

RECURSIVE Pow10(_)
Pow10(e) == IF e = 0 THEN 1 ELSE 10 * Pow10(e - 1)

RECURSIVE Normal(_, _)
Normal(m, e) == IF e > 0 /\ m % 10 = 0 THEN Normal(m \div 10, e - 1) ELSE Num(m, e)

Signed(neg, mag) == IF neg THEN 0 - mag ELSE mag

\* ip: the integer digits; fp: the fraction's digits.
NumberFraction(neg, ip, fp) ==
  IF fp.cnt = 0 THEN NoParse
  ELSE Parsed(Normal(Signed(neg, ip.n * Pow10(fp.cnt) + fp.n), fp.cnt), fp.i)

NumberInteger(s, neg, i0, ip) ==
  IF ip.cnt = 0 \/ (ip.cnt > 1 /\ s[i0] = "0") THEN NoParse
  ELSE IF ip.i <= Len(s) /\ s[ip.i] = "."
    THEN NumberFraction(neg, ip, ScanDigits(s, ip.i + 1, 0, 0))
  ELSE Parsed(Num(Signed(neg, ip.n), 0), ip.i)

\* The number that starts at i: -? (0 | [1-9][0-9]*) (. [0-9]+)?
ParseNumber(s, i) ==
  IF s[i] = "-" THEN NumberInteger(s, TRUE, i + 1, ScanDigits(s, i + 1, 0, 0))
  ELSE NumberInteger(s, FALSE, i, ScanDigits(s, i, 0, 0))

W_null == <<"n", "u", "l", "l">>
W_true == <<"t", "r", "u", "e">>
W_false == <<"f", "a", "l", "s", "e">>

RECURSIVE ParseValue(_, _)
RECURSIVE ParseMembers(_, _, _, _)
RECURSIVE ParseElements(_, _, _, _)

\* The value that starts at j, a character that is not white space.
ValueAt(s, j) ==
  IF j > Len(s) THEN NoParse
  ELSE IF s[j] = "{" THEN ParseMembers(s, j + 1, EmptyProps, TRUE)
  ELSE IF s[j] = "[" THEN ParseElements(s, j + 1, <<>>, TRUE)
  ELSE IF s[j] = "\"" THEN ParseString(s, j)
  ELSE IF s[j] \in Digits \cup {"-"} THEN ParseNumber(s, j)
  ELSE IF Matches(s, j, W_null) THEN Parsed(Null, j + 4)
  ELSE IF Matches(s, j, W_true) THEN Parsed(Bool(TRUE), j + 4)
  ELSE IF Matches(s, j, W_false) THEN Parsed(Bool(FALSE), j + 5)
  ELSE NoParse

ParseValue(s, i) == ValueAt(s, SkipWs(s, i))

\* After a member: a comma and the next member, or the closing brace.
MemberEnd(s, acc, d) ==
  IF d > Len(s) THEN NoParse
  ELSE IF s[d] = "," THEN ParseMembers(s, d + 1, acc, FALSE)
  ELSE IF s[d] = "}" THEN Parsed(Obj(acc), d + 1)
  ELSE NoParse

\* A later duplicate of a key replaces the earlier member.
MemberValue(s, acc, k, val) ==
  IF ~val.ok THEN NoParse ELSE MemberEnd(s, Put(acc, k, val.v), SkipWs(s, val.i))

MemberColon(s, acc, k, c) ==
  IF c > Len(s) \/ s[c] # ":" THEN NoParse
  ELSE MemberValue(s, acc, k, ParseValue(s, c + 1))

MemberKey(s, acc, key) ==
  IF ~key.ok THEN NoParse ELSE MemberColon(s, acc, key.v.s, SkipWs(s, key.i))

MembersAt(s, j, acc, first) ==
  IF j > Len(s) THEN NoParse
  ELSE IF first /\ s[j] = "}" THEN Parsed(Obj(acc), j + 1)
  ELSE IF s[j] # "\"" THEN NoParse
  ELSE MemberKey(s, acc, ParseString(s, j))

\* The members of an object from i on; acc holds those read so far.
ParseMembers(s, i, acc, first) == MembersAt(s, SkipWs(s, i), acc, first)

ElementEnd(s, acc, d) ==
  IF d > Len(s) THEN NoParse
  ELSE IF s[d] = "," THEN ParseElements(s, d + 1, acc, FALSE)
  ELSE IF s[d] = "]" THEN Parsed(Arr(acc), d + 1)
  ELSE NoParse

ElementValue(s, acc, val) ==
  IF ~val.ok THEN NoParse ELSE ElementEnd(s, Append(acc, val.v), SkipWs(s, val.i))

ElementsAt(s, j, acc, first) ==
  IF j > Len(s) THEN NoParse
  ELSE IF first /\ s[j] = "]" THEN Parsed(Arr(acc), j + 1)
  ELSE ElementValue(s, acc, ParseValue(s, j))

\* The elements of an array from i on; acc holds those read so far.
ParseElements(s, i, acc, first) == ElementsAt(s, SkipWs(s, i), acc, first)

WholeText(s, r) ==
  IF r.ok /\ SkipWs(s, r.i) > Len(s) THEN Parsed(r.v, r.i) ELSE NoParse

\* JSON.parse(s): a value, or ok = FALSE for the SyntaxError.
JSONParse(s) == WholeText(s, ParseValue(s, 1))

(***************************************************************************)
(* The model's answer: text in the format the prompt of scanLabel asks     *)
(* for, a JSON object with the members extractedText, structuredData,      *)
(* fieldMetadata and confidence, or in the format the prompt of            *)
(* analyzeEquipment asks for, with the members equipmentType,              *)
(* equipmentDescription, failures, condition, urgency and recommendations; *)
(* the model may leave out each of them.                                   *)
(***************************************************************************)
KeyOrder == <<K_extractedText, K_structuredData, K_fieldMetadata, K_id, K_brand,
              K_btu, K_source, K_confidence, K_inferenceBasis,
              K_equipmentType, K_equipmentDescription, K_failures, K_type,
              K_condition, K_urgency, K_recommendations>>

RECURSIVE FracStr(_, _)
\* The e digits of n, zero-padded on the left.
FracStr(n, e) ==
  IF e = 0 THEN <<>> ELSE FracStr(n \div 10, e - 1) \o <<DigitChar[(n % 10) + 1]>>

NumberText(v) ==
  LET mag == IF v.m < 0 THEN 0 - v.m ELSE v.m
      sign == IF v.m < 0 THEN <<"-">> ELSE <<>>
  IN IF v.e = 0 THEN sign \o DecStr(mag)
     ELSE sign \o DecStr(mag \div Pow10(v.e)) \o <<".">> \o FracStr(mag % Pow10(v.e), v.e)

RECURSIVE ValueText(_)
RECURSIVE MembersText(_, _)
RECURSIVE ElementsText(_)

ValueText(v) ==
  CASE v.t = "null" -> W_null
    [] v.t = "bool" -> IF v.b THEN W_true ELSE W_false
    [] v.t = "num" -> NumberText(v)
    [] v.t = "str" -> <<"\"">> \o v.s \o <<"\"">>
    [] v.t = "arr" -> <<"[">> \o ElementsText(v.a) \o <<"]">>
    [] v.t = "obj" ->
         <<"{">> \o MembersText(v.o, SelectSeq(KeyOrder, LAMBDA k : k \in DOMAIN v.o))
                 \o <<"}">>

MembersText(o, keys) ==
  IF keys = <<>> THEN <<>>
  ELSE <<"\"">> \o Head(keys) \o <<"\"", ":">> \o ValueText(o[Head(keys)])
       \o (IF Len(keys) > 1 THEN <<",">> ELSE <<>>) \o MembersText(o, Tail(keys))

ElementsText(a) ==
  IF a = <<>> THEN <<>>
  ELSE ValueText(Head(a)) \o (IF Len(a) > 1 THEN <<",">> ELSE <<>>)
       \o ElementsText(Tail(a))


(***************************************************************************)
(* scanLabel: the parse of the cleaned text and the defaulting of the      *)
(* parsed response.  parsedResponse is modelled by its own properties.     *)
(***************************************************************************)
\* The index of the first c in s, and of the last; 0 when s holds none.
IndexOf(s, c, i) ==
  LET at == {j \in i..Len(s) : s[j] = c}
  IN IF at = {} THEN 0 ELSE CHOOSE j \in at : \A k \in at : j <= k
LastIndexOf(s, c, i) ==
  LET at == {j \in 1..i : s[j] = c}
  IN IF at = {} THEN 0 ELSE CHOOSE j \in at : \A k \in at : j >= k

\* cleanedContent.match(/\{[\s\S]*\}/): the greedy match runs from the first
\* opening brace to the last closing brace after it.
MatchBetween(s, first, last) ==
  IF first # 0 /\ last > first
    THEN [found |-> TRUE, text |-> SubSeq(s, first, last)]
    ELSE [found |-> FALSE, text |-> <<>>]

jsonMatch(s) == MatchBetween(s, IndexOf(s, "{", 1), LastIndexOf(s, "}", Len(s)))

\* The per-field confidence used when the response has no truthy confidence.
FieldConfidenceFallback == Num(8, 1)
\* The overall confidence used when the response's is undefined or null.
ConfidenceDefault == Num(6, 1)

ScannedEntry(confidence) ==
  Obj(Put(Put(EmptyProps, K_source, Str(S_scanned)), K_confidence,
          IF Truthy(confidence) THEN confidence ELSE FieldConfidenceFallback))

\* The forEach over Object.keys(structuredData || {}): an entry for every key
\* whose value is neither null nor undefined.
\* MetadataFor without the test of line 192: an entry for a null value too.
MetadataForAll(e, confidence) ==
  [k \in DOMAIN e |-> ScannedEntry(confidence)]

MetadataFor(e, confidence) ==
  [k \in {x \in DOMAIN e : e[x].t \notin {"null", "undef"}} |-> ScannedEntry(confidence)]

OrEmpty(v) == IF Truthy(v) THEN v ELSE EmptyObj

GeneratedMetadata(p) ==
  MetadataFor(Entries(OrEmpty(Get(p, K_structuredData))), Get(p, K_confidence))

\* Lines 177-182.
DefaultStructuredData(p) ==
  IF ~Truthy(Get(p, K_structuredData)) THEN Put(p, K_structuredData, EmptyObj) ELSE p

\* Lines 184-199.
DefaultFieldMetadata(p) ==
  IF ~Truthy(Get(p, K_fieldMetadata))
    THEN Put(p, K_fieldMetadata, Obj(GeneratedMetadata(p)))
    ELSE p

\* As DefaultConfidence, but a missing confidence stays missing.
DefaultConfidenceNever(p) == p

\* Lines 201-206.
DefaultConfidence(p) ==
  IF Get(p, K_confidence).t \in {"undef", "null"}
    THEN Put(p, K_confidence, ConfidenceDefault)
    ELSE p

\* The same three steps as the catch block repeats them: lines 217-219,
\* 221-236 and 238-243.
FallbackStructuredData(p) ==
  IF ~Truthy(Get(p, K_structuredData)) THEN Put(p, K_structuredData, EmptyObj) ELSE p

\* FallbackFieldMetadata generating entries whether or not the answer has
\* some, the generated ones replacing the answer's.
FallbackFieldMetadataOverwriting(p) ==
  Put(p, K_fieldMetadata,
      Obj(Spread(Entries(Get(p, K_fieldMetadata)), GeneratedMetadata(p))))

\* FallbackFieldMetadata left out of the catch block.
FallbackFieldMetadataSkipped(p) == p

FallbackFieldMetadata(p) ==
  IF ~Truthy(Get(p, K_fieldMetadata))
    THEN Put(p, K_fieldMetadata, Obj(GeneratedMetadata(p)))
    ELSE p

\* FallbackConfidence testing !confidence instead of undefined and null.
FallbackConfidenceFalsy(p) ==
  IF ~Truthy(Get(p, K_confidence))
    THEN Put(p, K_confidence, ConfidenceDefault)
    ELSE p

FallbackConfidence(p) ==
  IF Get(p, K_confidence).t \in {"undef", "null"}
    THEN Put(p, K_confidence, ConfidenceDefault)
    ELSE p

NoResult == [t |-> "none"]
NoError == [code |-> "none"]

\* An attempt's end: it threw, or it read the value v and left parsedResponse
\* with the properties p.
Threw == [ok |-> FALSE, v |-> Undef, p |-> EmptyProps]
Got(v, p) == [ok |-> TRUE, v |-> v, p |-> p]

\* The try block, lines 174-206.  JSON.parse throws a SyntaxError; reading a
\* property of null throws a TypeError; so does, in the strict mode of a
\* class body, creating a property on a number, a string or a boolean, which
\* is what line 181 does since none of them has a structuredData.  An array
\* is an object and takes the properties.
StrictParsed(r) ==
  IF ~r.ok THEN Threw
  ELSE IF r.v.t \notin {"obj", "arr"} THEN Threw
  ELSE Got(r.v, DefaultConfidence(DefaultFieldMetadata(DefaultStructuredData(Entries(r.v)))))

StrictAttempt(cleaned) == StrictParsed(JSONParse(cleaned))

\* The inner try block, lines 213-243: the matched text starts with a brace,
\* so what parses is an object.
FallbackParsed(r) ==
  IF ~r.ok THEN Threw
  ELSE Got(r.v, FallbackConfidence(FallbackFieldMetadata(FallbackStructuredData(Entries(r.v)))))

FallbackAttempt(text) == FallbackParsed(JSONParse(text))

\* The length of the excerpt of the cleaned text an error message carries.
ExcerptLen == 300

JsError(message, excerpt) ==
  [name |-> "Error", message |-> message, excerpt |-> excerpt]

NoExcerpt == <<"(", "n", "o", "n", "e", ")">>

ParseFailure(message, cleaned) ==
  JsError(message, Substring(cleaned, 0, ExcerptLen) \o <<".", ".", ".">>)

\* Lines 572-583.
createAppError(code, message, originalError, at) ==
  [code |-> code, message |-> message, timestamp |-> DateAt(at),
   details |-> [originalError |-> originalError]]

NewRecord(at) ==
  Put(Put(Put(EmptyProps, K_id, Str(<<>>)), K_createdAt, DateAt(at)),
      K_updatedAt, DateAt(at))

\* Lines 265-271.
ExtractedData(p, at) ==
  Put(Spread(NewRecord(at), Entries(Get(p, K_structuredData))),
      K_fieldMetadata, OrEmpty(Get(p, K_fieldMetadata)))

\* Lines 273-278.
LabelScanResult(p, t0, at) ==
  [confidence |-> Get(p, K_confidence),
   extractedData |-> ExtractedData(p, at),
   rawText |-> Get(p, K_extractedText),
   processingTime |-> at - t0]

Success(pth, cleaned, a, t0, at) ==
  [ok |-> TRUE, path |-> pth, cleaned |-> cleaned, parsed |-> a.v,
   value |-> LabelScanResult(a.p, t0, at), error |-> NoError]

Failure(cleaned, e) ==
  [ok |-> FALSE, path |-> "none", cleaned |-> cleaned, parsed |-> Undef,
   value |-> NoResult, error |-> e]

\* Lines 213-252: the second attempt, on the matched text.
SettleSecond(cleaned, second, t0, at) ==
  IF second.ok THEN Success("fallback", cleaned, second, t0, at)
  ELSE Failure(cleaned, ParseFailure(
         "Could not parse OpenAI response after multiple attempts. Content: ", cleaned))

\* Lines 211-260: the catch block.
SettleMatch(cleaned, m, t0, at) ==
  IF m.found THEN SettleSecond(cleaned, FallbackAttempt(m.text), t0, at)
  ELSE Failure(cleaned, ParseFailure(
         "OpenAI response does not contain valid JSON: ", cleaned))

\* Lines 174-261.
SettleStrict(cleaned, strict, t0, at) ==
  IF strict.ok THEN Success("strict", cleaned, strict, t0, at)
  ELSE SettleMatch(cleaned, jsonMatch(cleaned), t0, at)

SettleCleaned(cleaned, t0, at) ==
  SettleStrict(cleaned, StrictAttempt(cleaned), t0, at)

\* Lines 165-278, what scanLabel does with the model's answer c at time at:
\* a result, or the error its catch block wraps.
Settle(c, t0, at) ==
  IF c = <<>> THEN Failure(<<>>, JsError("No response from OpenAI", NoExcerpt))
  ELSE SettleCleaned(cleanJsonResponse(c), t0, at)

(***************************************************************************)
(* analyzeEquipment: one JSON.parse of the cleaned text, and the reads of  *)
(* the parsed response's properties.                                       *)
(***************************************************************************)
\* What JSON.parse throws at line 379, and what a read of a property of
\* null throws at line 384.
SyntaxError == [name |-> "SyntaxError", message |-> "Unexpected token", excerpt |-> NoExcerpt]
TypeError ==
  [name |-> "TypeError", message |-> "Cannot read properties of null",
   excerpt |-> NoExcerpt]

\* Lines 383-391: each property is read as it is.
InspectionResult(p, t0, at) ==
  [equipmentType |-> Get(p, K_equipmentType),
   equipmentDescription |-> Get(p, K_equipmentDescription),
   failures |-> Get(p, K_failures),
   overallCondition |-> Get(p, K_condition),
   maintenanceUrgency |-> Get(p, K_urgency),
   generalRecommendations |-> Get(p, K_recommendations),
   processingTime |-> at - t0]

Analysed(cleaned, v, t0, at) ==
  [ok |-> TRUE, path |-> "strict", cleaned |-> cleaned, parsed |-> v,
   value |-> InspectionResult(Entries(v), t0, at), error |-> NoError]

\* As AnalyseParsed, but a text that does not parse is let through.
AnalyseParsedLenient(cleaned, r, t0, at) ==
  IF r.v.t = "null" THEN Failure(cleaned, TypeError)
  ELSE Analysed(cleaned, r.v, t0, at)

\* Lines 379-391.
AnalyseParsed(cleaned, r, t0, at) ==
  IF ~r.ok THEN Failure(cleaned, SyntaxError)
  ELSE IF r.v.t = "null" THEN Failure(cleaned, TypeError)
  ELSE Analysed(cleaned, r.v, t0, at)

AnalyseCleaned(cleaned, t0, at) == AnalyseParsed(cleaned, JSONParse(cleaned), t0, at)

\* Lines 372-391, what analyzeEquipment does with the model's answer c at
\* time at: a result, or the error its catch block wraps.
Analyse(c, t0, at) ==
  IF c = <<>> THEN Failure(<<>>, JsError("No response from OpenAI", NoExcerpt))
  ELSE AnalyseCleaned(cleanJsonResponse(c), t0, at)

(***************************************************************************)
(* The answers the model may give.                                         *)
(***************************************************************************)
FieldUniverse == {K_brand, K_btu, K_id, K_fieldMetadata}
FieldValues(k) ==
  IF k = K_brand THEN {Str(<<"C">>), Null}
  ELSE IF k = K_btu THEN {Num(36000, 0)}
  ELSE {Str(<<"x">>)}

\* structuredData: left out, null, or an object of at most MaxFields fields.
StructuredDataOptions ==
  {Undef, Null} \cup
  UNION {{Obj(f) : f \in {g \in [S -> UNION {FieldValues(k) : k \in S}] :
                            \A k \in S : g[k] \in FieldValues(k)}} :
         S \in {T \in SUBSET FieldUniverse : Cardinality(T) <= MaxFields}}

InferredEntry ==
  Obj(Put(Put(Put(EmptyProps, K_source, Str(S_ai_inferred)), K_confidence, Num(5, 1)),
          K_inferenceBasis, Str(<<"m">>)))
ReadEntry ==
  Obj(Put(Put(EmptyProps, K_source, Str(S_scanned)), K_confidence, Num(95, 2)))

\* fieldMetadata: left out, empty, or with explicit entries for some fields.
FieldMetadataOptions ==
  {Undef, EmptyObj, Obj(Put(EmptyProps, K_brand, InferredEntry)),
   Obj(Put(Put(EmptyProps, K_brand, InferredEntry), K_btu, ReadEntry))}

\* confidence: left out, null, a number in or out of [0,1], or not a number.
ConfidenceOptions ==
  {Undef, Null, Num(0, 0), Num(9, 1), Num(15, 1), Num(-1, 0), Str(<<"h", "i">>)}

ExtractedTextOptions == {Undef, Str(<<"T">>)}

PutIfGiven(p, k, v) == IF v = Undef THEN p ELSE Put(p, k, v)

ResponseObjects ==
  {Obj(PutIfGiven(PutIfGiven(PutIfGiven(PutIfGiven(EmptyProps,
         K_extractedText, x), K_structuredData, sd), K_fieldMetadata, fm),
         K_confidence, c)) :
     x \in ExtractedTextOptions, sd \in StructuredDataOptions,
     fm \in FieldMetadataOptions, c \in ConfidenceOptions}

ProseBefore == <<"S", "e", "e", ":", " ">>
ProseAfter == <<" ", "o", "k">>

\* A JSON object as the model may send it: alone, in a fence, or in prose.
Wrappings(text) ==
  {text,
   FenceJson \o <<"\n">> \o text \o <<"\n">> \o Fence,
   ProseBefore \o text \o ProseAfter}

LongProse == [i \in 1..(ExcerptLen + 2) |-> "x"]

\* Answers that are not one JSON object.
OddAnswers ==
  {<<>>,
   <<"n", "o", "t", " ", "j", "s", "o", "n">>,
   <<"{", "o", "o", "p", "s", "}">>,
   <<"}", " ", "{">>,
   <<"{", "a", "}", " ">> \o ValueText(EmptyObj),
   <<"[", "1", ",", "2", "]">>,
   <<"4", "2">>,
   <<"n", "u", "l", "l">>,
   <<"t", "r", "u", "e">>,
   <<"\"", "h", "i", "\"">>,
   <<"\"", "{", "}", "\"">>,
   LongProse}

\* What the model may write after the opening fence: nothing, or the name of
\* a language.
FenceTags ==
  {<<>>, <<"j", "s", "o", "n">>, <<"J", "S", "O", "N">>, <<"j", "s">>,
   <<"j", "a", "v", "a", "s", "c", "r", "i", "p", "t">>}

Fenced(tag, text) == Fence \o tag \o <<"\n">> \o text \o <<"\n">> \o Fence

\* A text with its opening fence, its closing fence, both or none, and with
\* white space around it or not.
OpeningFences == {<<>>, Fence \o <<"\n">>, FenceJson \o <<"\n">>}
ClosingFences == {<<>>, <<"\n">> \o Fence}
SpaceBefore == {<<>>, <<" ", "\n">>}
SpaceAfter == {<<>>, <<"\n", " ">>}
FenceForms(text) ==
  {pre \o open \o text \o close \o post :
     pre \in SpaceBefore, open \in OpeningFences, close \in ClosingFences,
     post \in SpaceAfter}

\* The bodies the fences are tried on.
FencedBodies ==
  {ValueText(EmptyObj), ValueText(Obj(Put(EmptyProps, K_confidence, Num(9, 1))))}

FencedAnswers ==
  UNION {{Fenced(tag, b) : tag \in FenceTags} \cup FenceForms(b) : b \in FencedBodies}

Answers ==
  UNION {Wrappings(ValueText(o)) : o \in ResponseObjects} \cup FencedAnswers
    \cup OddAnswers

\* The answers to analyzeEquipment: failures and recommendations are left
\* out, null, or arrays; condition is left out or a string.
FailureItem(type) == Obj(Put(EmptyProps, K_type, Str(type)))
FailuresOptions ==
  {Undef, Null, Arr(<<>>),
   Arr(<<FailureItem(<<"o", "t", "h", "e", "r">>), FailureItem(<<"c">>)>>)}
RecommendationsOptions == {Undef, Arr(<<>>), Arr(<<Str(<<"b">>), Str(<<"a">>)>>)}
ConditionOptions == {Undef, Str(<<"f", "a", "i", "r">>)}

AnalysisObjects ==
  {Obj(PutIfGiven(PutIfGiven(PutIfGiven(EmptyProps,
         K_failures, f), K_condition, c), K_recommendations, r)) :
     f \in FailuresOptions, c \in ConditionOptions, r \in RecommendationsOptions}

AnalysisAnswers ==
  UNION {Wrappings(ValueText(o)) : o \in AnalysisObjects} \cup OddAnswers

(***************************************************************************)
(* One OpenAIService and the calls of scanLabel and analyzeEquipment, one  *)
(* at a time.                                                              *)
(***************************************************************************)
\* The form as useState leaves it when EquipmentForm is mounted (lines
\* 342-352 of InspectionResults.tsx).  Of the fields of the form the model
\* keeps brand, which stands for every text field, and btu, which stands for
\* every number field.
FormInitial == Put(Put(EmptyProps, K_brand, Str(<<>>)), K_btu, Undef)

Init ==
  /\ currentScreen = "home"
  /\ currentEquipment = Null
  /\ currentReport = Null
  /\ formData = FormInitial
  /\ saved = <<>>
  /\ reports = EmptyProps
  /\ dbError = NoError
  /\ pc = "idle"
  /\ now = 0
  /\ startTime = 0
  /\ content = <<>>
  /\ cleanedContent = <<>>
  /\ parsed = Undef
  /\ path = "none"
  /\ result = NoResult
  /\ error = NoError
  /\ requests = 0
  /\ captures = <<>>
  /\ isProcessing = FALSE
  /\ captureError = Null
  /\ scans = <<>>
  /\ mounted = FALSE
  /\ facingMode = "environment"
  /\ stream = 0
  /\ cameraError = Null
  /\ effectStream = 0
  /\ tracks = <<>>
  /\ mediaRequests = [mounted |-> 0, unmounted |-> 0]
  /\ operations = <<>>
  /\ isLoading = FALSE

\* No call is under way.
AtRest == {"idle", "done", "failed", "analysed", "analysisFailed"}

\* Time passes.
Tick ==
  /\ now < MaxClock
  /\ now' = now + 1
  /\ UNCHANGED <<pc, startTime, content, cleanedContent, parsed, path, result, error,
                 requests>>
  /\ UNCHANGED appVars
  /\ UNCHANGED <<capVars, camVars, dbVars>>

\* scanLabel is called (lines 29-33): it notes the time and starts to encode
\* the image.
ScanLabel ==
  /\ pc \in AtRest
  /\ pc' = "encoding"
  /\ startTime' = now
  /\ content' = <<>>
  /\ cleanedContent' = <<>>
  /\ parsed' = Undef
  /\ path' = "none"
  /\ result' = NoResult
  /\ error' = NoError
  /\ requests' = 0
  /\ UNCHANGED now
  /\ UNCHANGED appVars
  /\ UNCHANGED <<capVars, camVars, dbVars>>

Reject(e) ==
  /\ pc' = "failed"
  /\ error' = createAppError("PROCESSING_ERROR", "Error processing the label", e, now)
  /\ result' = NoResult

\* fileToBase64 resolves and the request goes out (lines 33-163).
FileEncoded ==
  /\ pc = "encoding"
  /\ pc' = "awaiting"
  /\ requests' = requests + 1
  /\ UNCHANGED <<now, startTime, content, cleanedContent, parsed, path, result, error>>
  /\ UNCHANGED appVars
  /\ UNCHANGED <<capVars, camVars, dbVars>>

\* fileToBase64 rejects (lines 471-549).
FileUnreadable ==
  /\ pc = "encoding"
  /\ \E m \in {"Error reading file", "Error loading image",
               "Could not create canvas context"} :
        Reject(JsError(m, NoExcerpt))
  /\ UNCHANGED <<now, startTime, content, cleanedContent, parsed, path, requests>>
  /\ UNCHANGED appVars
  /\ UNCHANGED <<capVars, camVars, dbVars>>

\* The request fails (line 141 throws).
ModelRejects ==
  /\ pc = "awaiting"
  /\ Reject(JsError("request failed", NoExcerpt))
  /\ UNCHANGED <<now, startTime, content, cleanedContent, parsed, path, requests>>
  /\ UNCHANGED appVars
  /\ UNCHANGED <<capVars, camVars, dbVars>>

Settled(c, s) ==
  /\ content' = c
  /\ cleanedContent' = s.cleaned
  /\ parsed' = s.parsed
  /\ path' = s.path
  /\ IF s.ok
       THEN /\ pc' = "done"
            /\ result' = s.value
            /\ error' = NoError
       ELSE Reject(s.error)

\* The model answers and scanLabel runs to its end (lines 165-285).
ModelResponds ==
  /\ pc = "awaiting"
  /\ \E c \in Answers : Settled(c, Settle(c, startTime, now))
  /\ UNCHANGED <<now, startTime, requests>>
  /\ UNCHANGED appVars
  /\ UNCHANGED <<capVars, camVars, dbVars>>

\* analyzeEquipment is called (lines 288-294): it notes the time and starts
\* to encode the images.
AnalyzeEquipment ==
  /\ pc \in AtRest
  /\ pc' = "encodingAll"
  /\ startTime' = now
  /\ content' = <<>>
  /\ cleanedContent' = <<>>
  /\ parsed' = Undef
  /\ path' = "none"
  /\ result' = NoResult
  /\ error' = NoError
  /\ requests' = 0
  /\ UNCHANGED now
  /\ UNCHANGED appVars
  /\ UNCHANGED <<capVars, camVars, dbVars>>

\* Lines 392-398.
RejectAnalysis(e) ==
  /\ pc' = "analysisFailed"
  /\ error' = createAppError("PROCESSING_ERROR", "Error analyzing equipment", e, now)
  /\ result' = NoResult

\* Every fileToBase64 resolves and the one request goes out (lines 292-370).
FilesEncoded ==
  /\ pc = "encodingAll"
  /\ pc' = "awaitingAnalysis"
  /\ requests' = requests + 1
  /\ UNCHANGED <<now, startTime, content, cleanedContent, parsed, path, result, error>>
  /\ UNCHANGED appVars
  /\ UNCHANGED <<capVars, camVars, dbVars>>

\* One fileToBase64 rejects, and Promise.all with it (lines 292-294).
FilesUnreadable ==
  /\ pc = "encodingAll"
  /\ \E m \in {"Error reading file", "Error loading image",
               "Could not create canvas context"} :
        RejectAnalysis(JsError(m, NoExcerpt))
  /\ UNCHANGED <<now, startTime, content, cleanedContent, parsed, path, requests>>
  /\ UNCHANGED appVars
  /\ UNCHANGED <<capVars, camVars, dbVars>>

\* The request fails (line 354 throws).
AnalysisRejects ==
  /\ pc = "awaitingAnalysis"
  /\ RejectAnalysis(JsError("request failed", NoExcerpt))
  /\ UNCHANGED <<now, startTime, content, cleanedContent, parsed, path, requests>>
  /\ UNCHANGED appVars
  /\ UNCHANGED <<capVars, camVars, dbVars>>

AnalysisSettled(c, s) ==
  /\ content' = c
  /\ cleanedContent' = s.cleaned
  /\ parsed' = s.parsed
  /\ path' = s.path
  /\ IF s.ok
       THEN /\ pc' = "analysed"
            /\ result' = s.value
            /\ error' = NoError
       ELSE RejectAnalysis(s.error)

\* The model answers and analyzeEquipment runs to its end (lines 372-398).
AnalysisResponds ==
  /\ pc = "awaitingAnalysis"
  /\ \E c \in AnalysisAnswers : AnalysisSettled(c, Analyse(c, startTime, now))
  /\ UNCHANGED <<now, startTime, requests>>
  /\ UNCHANGED appVars
  /\ UNCHANGED <<capVars, camVars, dbVars>>

Next ==
  \/ Tick
  \/ ScanLabel
  \/ FileEncoded
  \/ FileUnreadable
  \/ ModelRejects
  \/ ModelResponds
  \/ AnalyzeEquipment
  \/ FilesEncoded
  \/ FilesUnreadable
  \/ AnalysisRejects
  \/ AnalysisResponds

Spec == Init /\ [][Next]_vars

(***************************************************************************)
(* The application: Home (src/src/types/index.ts), the screens it shows,   *)
(* EquipmentForm (src/src/components/InspectionResults.tsx), CameraCapture *)
(* (src/unnamed/part_002) and the report store of useLocalStorage          *)
(* (src/unnamed/part_000).                                                 *)
(***************************************************************************)
\* a || b
OrElse(a, b) == IF Truthy(a) THEN a ELSE b

\* The effect of EquipmentForm on its initialData (lines 384-407): the
\* fields of the form with their defaults, under the properties of
\* initialData, all of them.
FormFrom(d) ==
  Spread(Put(Put(EmptyProps, K_brand, OrElse(Get(d, K_brand), Str(<<>>))),
             K_btu, OrElse(Get(d, K_btu), Undef)),
         d)

\* EquipmentForm is mounted with initialData: its state, once the effect has
\* run.
MountForm(initialData) ==
  IF Truthy(initialData) THEN FormFrom(Entries(initialData)) ELSE FormInitial

\* Lines 412-426: the record handleSubmit builds at time at, the state of
\* the form spread over it last.
SubmittedEquipment(fd, at) ==
  Spread(Put(Put(Put(Put(Put(EmptyProps,
           K_id, Str(DecStr(at))),
           K_brand, OrElse(Get(fd, K_brand), Str(<<>>))),
           K_btu, Get(fd, K_btu)),
           K_createdAt, DateAt(at)),
           K_updatedAt, DateAt(at)),
         fd)

\* result.confidence >= 0.3.
AboveThresholdOrEqual(v) ==
  CASE v.t = "num" -> 10 * v.m >= 3 * Pow10(v.e)
    [] v.t = "bool" -> v.b
    [] OTHER -> FALSE

\* result.confidence > 0.3, for a number or a boolean; no other value of the
\* answers below compares greater.
AboveThreshold(v) ==
  CASE v.t = "num" -> 10 * v.m > 3 * Pow10(v.e)
    [] v.t = "bool" -> v.b
    [] OTHER -> FALSE

\* The record of the button "Simulate Extraction" (part_002, lines 375-398).
MockData(at) ==
  Obj(Put(Put(Put(Put(Put(Put(EmptyProps,
        K_id, Str(<<"m", "o", "c", "k", "-", "e", "m", "e", "r", "g", "e", "n", "c", "y", "-", "i", "d">>)),
        K_createdAt, DateAt(at)),
        K_updatedAt, DateAt(at)),
        K_brand, Str(<<"C", "a", "r", "r", "i", "e", "r">>)),
        K_btu, Num(36000, 0)),
        K_fieldMetadata,
          Obj(Put(Put(EmptyProps, K_brand, ReadEntry),
                  K_btu, Obj(Put(Put(EmptyProps, K_source, Str(S_scanned)),
                                 K_confidence, Num(9, 1)))))))

\* The answers the model gives to the scans of the application: a label read
\* well, a label with an id of the model's own, a label read with the
\* confidence of the threshold, and no JSON.
LabelSamples ==
  {ValueText(Obj(Put(Put(EmptyProps,
      K_structuredData, Obj(Put(EmptyProps, K_brand, Str(<<"C">>)))),
      K_confidence, Num(9, 1)))),
   ValueText(Obj(Put(Put(EmptyProps,
      K_structuredData, Obj(Put(EmptyProps, K_id, Str(<<"x">>)))),
      K_confidence, Num(9, 1)))),
   ValueText(Obj(Put(Put(EmptyProps,
      K_structuredData, Obj(Put(EmptyProps, K_brand, Str(<<"C">>)))),
      K_confidence, Num(3, 1)))),
   <<"n", "o", "t", " ", "j", "s", "o", "n">>}

AnalysisSamples ==
  {ValueText(Obj(Put(Put(EmptyProps,
      K_failures, Arr(<<FailureItem(<<"c">>)>>)),
      K_condition, Str(<<"f", "a", "i", "r">>)))),
   <<"n", "o", "t", " ", "j", "s", "o", "n">>}

TempId(at) == <<"t", "e", "m", "p", "-">> \o DecStr(at)

\* The equipment of a report made with no equipment in hand.
TempEquipment(brand, at) ==
  Obj(Put(Put(Put(Put(EmptyProps,
        K_id, Str(TempId(at))),
        K_brand, Str(brand)),
        K_createdAt, DateAt(at)),
        K_updatedAt, DateAt(at)))

\* The files the user has to photograph or to upload.
Files == {[name |-> "photo.jpg", size |-> 1]}

\* The capture handleFileUpload makes of a file (part_002, lines 135-139).
NewCapture(file, at) ==
  [file |-> file, preview |-> <<"blob", file.name>>, timestamp |-> DateAt(at)]

\* equipmentImages of a report (part_002, lines 207-213): captures.map, the
\* index of the capture in the id.
EquipmentImages(caps) ==
  [i \in DOMAIN caps |->
     [id |-> <<"i", "m", "g", "-">> \o DecStr(i - 1),
      url |-> caps[i].preview,
      type |-> "equipment",
      capturedAt |-> caps[i].timestamp,
      fileSize |-> caps[i].file.size]]

\* A report left in draft with its completion date set.
NewReportDraft(equipment, placeholder, equipmentImages, inspectionResult, at) ==
  [id |-> Str(DecStr(at)),
   equipmentId |-> OrElse(Get(Entries(equipment), K_id), Str(TempId(at))),
   equipment |-> OrElse(equipment, TempEquipment(placeholder, at)),
   equipmentImages |-> equipmentImages,
   inspectionResult |-> inspectionResult,
   status |-> "draft",
   createdAt |-> DateAt(at),
   completedAt |-> DateAt(at)]


\* The report processEquipmentImages builds (part_002, lines 194-218), and
\* the button of the demonstration report after it (lines 449-505).
NewReport(equipment, placeholder, equipmentImages, inspectionResult, at) ==
  [id |-> Str(DecStr(at)),
   equipmentId |-> OrElse(Get(Entries(equipment), K_id), Str(TempId(at))),
   equipment |-> OrElse(equipment, TempEquipment(placeholder, at)),
   equipmentImages |-> equipmentImages,
   inspectionResult |-> inspectionResult,
   status |-> "completed",
   createdAt |-> DateAt(at),
   completedAt |-> DateAt(at)]

\* The inspection result of the demonstration report (lines 461-501).
DemoResult ==
  [equipmentType |-> Str(<<"R", "T", "U", " ", "(", "R", "o", "o", "f", "t", "o", "p", " ", "U", "n", "i", "t", ")">>),
   equipmentDescription |-> 
     Str(<<"C", "o", "m", "m", "e", "r", "c", "i", "a", "l", " ", "r", "o", "o", "f", "t", "o", "p", " ", "u", "n", "i", "t", " ", "f", "o", "r", " ", "c", "o", "o", "l", "i", "n", "g", " ", "a", "n", "d", " ", "h", "e", "a", "t", "i", "n", "g">>),
   failures |-> Arr(<<FailureItem(<<"d", "i", "r", "t", "y", "_", "f", "i", "l", "t", "e", "r">>), FailureItem(<<"r", "e", "f", "r", "i", "g", "e", "r", "a", "n", "t", "_", "l", "e", "a", "k">>)>>),
   overallCondition |-> Str(<<"f", "a", "i", "r">>),
   maintenanceUrgency |-> Str(<<"w", "i", "t", "h", "i", "n", "_", "w", "e", "e", "k">>),
   generalRecommendations |->
     Arr(<<Str(<<"S", "c", "h", "e", "d", "u", "l", "e", " ", "c", "o", "m", "p", "l", "e", "t", "e", " ", "p", "r", "e", "v", "e", "n", "t", "i", "v", "e", " ", "m", "a", "i", "n", "t", "e", "n", "a", "n", "c", "e">>),
           Str(<<"C", "l", "e", "a", "n", " ", "c", "o", "i", "l", "s", " ", "q", "u", "a", "r", "t", "e", "r", "l", "y">>),
           Str(<<"C", "h", "e", "c", "k", " ", "r", "e", "f", "r", "i", "g", "e", "r", "a", "n", "t", " ", "l", "e", "v", "e", "l", "s", " ", "m", "o", "n", "t", "h", "l", "y">>),
           Str(<<"C", "o", "n", "s", "i", "d", "e", "r", " ", "u", "p", "g", "r", "a", "d", "i", "n", "g", " ", "o", "l", "d", " ", "c", "o", "m", "p", "o", "n", "e", "n", "t", "s">>)>>),
   processingTime |-> 3500]

\* The statuses of a report (src/src/types/index.ts, line 114).
Statuses == {"draft", "processing", "completed", "error"}

\* What performDBOperation rejects with (part_000, lines 357-365).
StorageError(err, at) ==
  [code |-> "STORAGE_ERROR", message |-> "Local storage error",
   timestamp |-> DateAt(at),
   details |-> [originalError |-> err]]

\* A date given by its day, as new Date("2024-01-15") gives it.
DateOn(y, m, d) == [t |-> "date", ymd |-> <<y, m, d>>]

HistoryEquipment(id, brand, date) ==
  Obj(Put(Put(Put(Put(EmptyProps,
        K_id, Str(id)),
        K_brand, Str(brand)),
        K_createdAt, date),
        K_updatedAt, date))

HistoryReport(id, brand, status, date, completedAt) ==
  [id |-> Str(id),
   equipmentId |-> Str(id),
   equipment |-> HistoryEquipment(id, brand, date),
   equipmentImages |-> <<>>,
   inspectionResult |-> Undef,
   status |-> status,
   createdAt |-> date,
   completedAt |-> completedAt]

\* The reports HistoryView lists (part_001, lines 20-71).
mockReports ==
  <<HistoryReport(<<"1">>, <<"C", "a", "r", "r", "i", "e", "r">>, "completed",
                  DateOn(2024, 1, 15), DateOn(2024, 1, 15)),
    HistoryReport(<<"2">>, <<"T", "r", "a", "n", "e">>, "completed",
                  DateOn(2024, 1, 10), DateOn(2024, 1, 10)),
    HistoryReport(<<"3">>, <<"L", "e", "n", "n", "o", "x">>, "draft",
                  DateOn(2024, 1, 5), Undef)>>

\* The record of the button "Test Mode" (part_002, lines 283-320), of its
\* fields the ones the form of this model has.
TestData(at) ==
  Obj(Put(Put(Put(Put(Put(Put(EmptyProps,
        K_id, Str(<<"m", "o", "c", "k", "-", "i", "d">>)),
        K_createdAt, DateAt(at)),
        K_updatedAt, DateAt(at)),
        K_brand, Str(<<"C", "a", "r", "r", "i", "e", "r">>)),
        K_btu, Num(36000, 0)),
        K_fieldMetadata,
          Obj(Put(Put(EmptyProps,
                K_brand, Obj(Put(Put(EmptyProps, K_source, Str(S_scanned)),
                                 K_confidence, Num(95, 2)))),
                K_btu, Obj(Put(Put(EmptyProps, K_source, Str(S_scanned)),
                               K_confidence, Num(9, 1)))))))

\* err instanceof Error: what createAppError makes is a plain object.
InstanceOfError(e) == "code" \notin DOMAIN e

\* The message of lines 162-166.
LowConfidence(confidence) ==
  [message |-> "Low confidence", confidence |-> confidence]

\* A scan that fails and leaves no message.
ProcessingFailedSilently(what, err) == Null

\* The message of lines 170-174 and 224-228.
ProcessingFailed(what, err) ==
  [message |-> what,
   cause |-> IF InstanceOfError(err) THEN err.message ELSE "Unknown error"]

\* The condition of the banner of success (part_002, line 421).
SuccessBanner == captures # <<>> /\ ~isProcessing /\ captureError = Null

\* A call of scanLabel that processLabelImage awaits, as it starts.
LabelScan ==
  [kind |-> "label", st |-> "pending", alive |-> TRUE, confidence |-> Undef,
   equipment |-> Null, captures |-> <<>>, payload |-> Null]

\* A call of analyzeEquipment that processEquipmentImages awaits, with the
\* equipment and the captures its closure holds.
EquipmentScan(equipment, caps) ==
  [kind |-> "equipment", st |-> "pending", alive |-> TRUE, confidence |-> Undef,
   equipment |-> equipment, captures |-> caps, payload |-> Null]

\* The timer of the button "Simulate Extraction".
SimulatedScan(data) ==
  [kind |-> "simulate", st |-> "timer", alive |-> TRUE, confidence |-> Undef,
   equipment |-> Null, captures |-> <<>>, payload |-> data]

\* A timer that has fired: its closure is gone.
Delivered(scan) ==
  [scan EXCEPT !.st = "delivered", !.equipment = Null, !.captures = <<>>,
               !.payload = Null]

\* The calls whose CameraCapture is unmounted: what they set in its state
\* comes to nothing.
Orphaned(ss) == [i \in DOMAIN ss |-> [ss[i] EXCEPT !.alive = FALSE]]

\* Home shows another screen: the CameraCapture, if one was shown, is
\* unmounted, and one mounted later starts from its initial state (lines
\* 36-43).
LeaveCapture(ss) ==
  /\ captures' = <<>>
  /\ isProcessing' = FALSE
  /\ captureError' = Null
  /\ scans' = Orphaned(ss)

\* Home shows HomeScreen (lines 318-319): on the screen "home" and on the
\* screen "settings", which has no case of its own.
HomeShown == currentScreen \in {"home", "settings"}

\* HomeScreen: the cards "Scan Label" and "Manual Inspection" (lines 346-361
\* of src/src/types/index.ts).  The form is mounted with the equipment Home
\* has in hand.
Navigate ==
  /\ HomeShown
  /\ \/ currentScreen' = "scan-label" /\ UNCHANGED formData
     \/ currentScreen' = "data-form" /\ formData' = MountForm(currentEquipment)
  /\ LeaveCapture(scans)
  /\ UNCHANGED <<currentEquipment, currentReport, saved, reports, dbError, now>>
  /\ UNCHANGED callVars
  /\ UNCHANGED <<camVars, dbVars>>

\* HomeScreen: the card "History" (lines 362-369).
openHistory ==
  /\ HomeShown
  /\ currentScreen' = "history"
  /\ LeaveCapture(scans)
  /\ UNCHANGED <<currentEquipment, currentReport, formData, saved, reports, dbError,
                 now>>
  /\ UNCHANGED callVars
  /\ UNCHANGED <<camVars, dbVars>>

\* HomeScreen: the card "Settings" (lines 370-375).
openSettings ==
  /\ HomeShown
  /\ currentScreen' = "settings"
  /\ LeaveCapture(scans)
  /\ UNCHANGED <<currentEquipment, currentReport, formData, saved, reports, dbError,
                 now>>
  /\ UNCHANGED callVars
  /\ UNCHANGED <<camVars, dbVars>>

\* HistoryView.onSelectReport as Home gives it (lines 311-316): a report of
\* the list is opened.
onSelectReport ==
  /\ currentScreen = "history"
  /\ \E i \in DOMAIN mockReports : currentReport' = mockReports[i]
  /\ currentScreen' = "results"
  /\ LeaveCapture(scans)
  /\ UNCHANGED <<currentEquipment, formData, saved, reports, dbError, now>>
  /\ UNCHANGED callVars
  /\ UNCHANGED <<camVars, dbVars>>

\* onBack of the screens (lines 262-310): home, or from the inspection back
\* to the form.
onBack ==
  /\ \/ /\ currentScreen \in {"scan-label", "data-form", "results", "history"}
        /\ currentScreen' = "home"
        /\ formData' = FormInitial
     \/ /\ currentScreen = "inspect-equipment"
        /\ currentScreen' = "data-form"
        /\ formData' = MountForm(currentEquipment)
  /\ LeaveCapture(scans)
  /\ UNCHANGED <<currentEquipment, currentReport, saved, reports, dbError, now>>
  /\ UNCHANGED callVars
  /\ UNCHANGED <<camVars, dbVars>>

\* Home.handleLabelScanned (lines 246-250).
handleLabelScanned(equipment) ==
  /\ currentEquipment' = equipment
  /\ currentScreen' = "data-form"
  /\ formData' = MountForm(equipment)

\* What processLabelImage sets as error when the scan gives no record.
ScanError(s) ==
  IF s.ok THEN LowConfidence(s.value.confidence)
          ELSE ProcessingFailed("Error processing image", s.error)

LabelSettled(file, s) ==
  IF s.ok /\ AboveThreshold(s.value.confidence)
    THEN /\ handleLabelScanned(Obj(s.value.extractedData))
         /\ LeaveCapture(scans)
    ELSE /\ UNCHANGED <<currentEquipment, currentScreen, formData, scans>>
         /\ captures' = Append(captures, NewCapture(file, now))
         /\ isProcessing' = FALSE
         /\ captureError' = ScanError(s)

\* CameraCapture.handleFileUpload on a label and the processLabelImage it
\* calls (part_002, lines 131-180), taken in one step with the call of
\* scanLabel it awaits and the timer it sets: the record goes to onCapture
\* when the confidence is above the threshold.
processLabelImage ==
  /\ currentScreen = "scan-label"
  /\ Len(captures) < MaxCaptures
  /\ \E file \in Files : \E c \in LabelSamples :
        LabelSettled(file, Settle(c, now, now))
  /\ UNCHANGED <<currentReport, saved, reports, dbError, now>>
  /\ UNCHANGED callVars
  /\ UNCHANGED <<camVars, dbVars>>

\* The button "Simulate Extraction" (part_002, lines 371-407), taken in one
\* step with the upload that brings up the overlay it is on and with its
\* timer; the scan under way gives no record.
SimulateExtraction ==
  /\ currentScreen = "scan-label"
  /\ handleLabelScanned(MockData(now))
  /\ LeaveCapture(scans)
  /\ UNCHANGED <<currentReport, saved, reports, dbError, now>>
  /\ UNCHANGED callVars
  /\ UNCHANGED <<camVars, dbVars>>

\* What the user may type into a field of the form.
FieldInputs(field) == IF field = K_brand THEN {Str(<<"D">>)} ELSE {Num(12000, 0)}

\* EquipmentForm.handleChange (lines 431-436).
handleChange ==
  /\ currentScreen = "data-form"
  /\ \E field \in {K_brand, K_btu} : \E value \in FieldInputs(field) :
        formData' = Put(formData, field, value)
  /\ UNCHANGED <<currentScreen, currentEquipment, currentReport, saved, reports,
                 dbError, now>>
  /\ UNCHANGED callVars
  /\ UNCHANGED <<capVars, camVars, dbVars>>

\* Home.handleEquipmentSaved (lines 252-255), which is the form's onSave.
handleEquipmentSaved(equipment) ==
  /\ saved' = Append(saved, [record |-> equipment, at |-> now,
                             initialData |-> currentEquipment])
  /\ currentEquipment' = Obj(equipment)
  /\ currentScreen' = "inspect-equipment"
  /\ formData' = FormInitial

\* EquipmentForm.handleSubmit (lines 409-429).
handleSubmit ==
  /\ currentScreen = "data-form"
  /\ Len(saved) < MaxSaves
  /\ handleEquipmentSaved(SubmittedEquipment(formData, now))
  /\ LeaveCapture(scans)
  /\ UNCHANGED <<currentReport, reports, dbError, now>>
  /\ UNCHANGED callVars
  /\ UNCHANGED <<camVars, dbVars>>

\* A report comes and leaves no report in hand.
handleInspectionCompleteEmpty(report) ==
  /\ currentReport' = Null
  /\ currentScreen' = "results"

\* Home.handleInspectionComplete (lines 257-260).
handleInspectionComplete(report) ==
  /\ currentReport' = report
  /\ currentScreen' = "results"

\* CameraCapture.handleFileUpload on a photograph of the equipment
\* (part_002, lines 131-146): the capture is added.
handleFileUploadEquipment ==
  /\ currentScreen = "inspect-equipment"
  /\ Len(captures) < MaxCaptures
  /\ \E file \in Files : captures' = Append(captures, NewCapture(file, now))
  /\ UNCHANGED <<isProcessing, captureError, scans>>
  /\ UNCHANGED <<appVars, now>>
  /\ UNCHANGED callVars
  /\ UNCHANGED <<camVars, dbVars>>

EquipmentSettled(s) ==
  IF s.ok
    THEN /\ handleInspectionComplete(
              NewReport(currentEquipment, <<"U", "n", "i", "d", "e", "n", "t", "i", "f", "i", "e", "d", " ", "e", "q", "u", "i", "p", "m", "e", "n", "t">>,
                        EquipmentImages(captures), s.value, now))
         /\ LeaveCapture(scans)
    ELSE /\ UNCHANGED <<currentReport, currentScreen, captures, scans>>
         /\ isProcessing' = FALSE
         /\ captureError' = ProcessingFailed("Error analyzing equipment", s.error)

\* CameraCapture.processEquipmentImages (part_002, lines 182-234), which the
\* button under the banner of success calls (lines 432-441), taken in one
\* step with the call of analyzeEquipment it awaits and the timer it sets.
processEquipmentImages ==
  /\ currentScreen = "inspect-equipment"
  /\ SuccessBanner
  /\ \E c \in AnalysisSamples : EquipmentSettled(Analyse(c, now, now))
  /\ UNCHANGED <<currentEquipment, formData, saved, reports, dbError, now>>
  /\ UNCHANGED callVars
  /\ UNCHANGED <<camVars, dbVars>>

\* The button of the demonstration report, under the banner of success
\* (part_002, lines 443-512).
DemoReport ==
  /\ currentScreen = "inspect-equipment"
  /\ SuccessBanner
  /\ handleInspectionComplete(NewReport(currentEquipment, <<"C", "a", "r", "r", "i", "e", "r">>, <<>>, DemoResult, now))
  /\ LeaveCapture(scans)
  /\ UNCHANGED <<currentEquipment, formData, saved, reports, dbError, now>>
  /\ UNCHANGED callVars
  /\ UNCHANGED <<camVars, dbVars>>

\* store.put(report): the report replaces the one stored under its id.
PutReport(report) ==
  /\ reports' = Put(reports, report.id.s, report)
  /\ dbError' = NoError

\* useLocalStorage.saveReport (part_000, lines 430-443, in performDBOperation,
\* lines 346-369) on the report in hand, in whatever status its holder has
\* set: the report is stored, or the database fails and the hook's error is
\* set.
saveReport ==
  /\ currentReport # Null
  /\ \/ \E status \in Statuses : PutReport([currentReport EXCEPT !.status = status])
     \/ /\ dbError' = StorageError(JsError("Error opening database", NoExcerpt), now)
        /\ UNCHANGED reports
  /\ UNCHANGED <<currentScreen, currentEquipment, currentReport, formData, saved, now>>
  /\ UNCHANGED callVars
  /\ UNCHANGED <<capVars, camVars, dbVars>>

AppNext ==
  \/ Tick
  \/ Navigate
  \/ onBack
  \/ processLabelImage
  \/ SimulateExtraction
  \/ handleChange
  \/ handleSubmit

\* The application up to the saving of the equipment: the scan of the label,
\* taken in one step, the form and its submission.
AppSpec == Init /\ [][AppNext]_vars

\* The report store, and of the application what brings a report in hand by
\* hand: the form, the inspection and the clock.
StoreNext ==
  \/ Tick
  \/ Navigate
  \/ onBack
  \/ handleSubmit
  \/ handleFileUploadEquipment
  \/ processEquipmentImages
  \/ DemoReport
  \/ saveReport

StoreSpec == Init /\ [][StoreNext]_vars

(***************************************************************************)
(* The application step by step: a call of scanLabel or analyzeEquipment   *)
(* that a CameraCapture awaits settles in a step of its own, and the timer *)
(* that hands a result to onCapture fires in another, so that the user may *)
(* act in between.                                                         *)
(***************************************************************************)
\* CameraCapture.handleFileUpload on a label (part_002, lines 131-146) and
\* processLabelImage up to its await (lines 148-154).
handleFileUploadLabel ==
  /\ currentScreen = "scan-label"
  /\ Len(captures) < MaxCaptures
  /\ Len(scans) < MaxScans
  /\ \E file \in Files : captures' = Append(captures, NewCapture(file, now))
  /\ isProcessing' = TRUE
  /\ captureError' = Null
  /\ scans' = Append(scans, LabelScan)
  /\ UNCHANGED <<appVars, now>>
  /\ UNCHANGED callVars
  /\ UNCHANGED <<camVars, dbVars>>

\* The call of scanLabel as processLabelImage finds it settled.
LabelOutcome(scan, s) ==
  IF ~s.ok
    THEN [scan EXCEPT !.st = "rejected"]
    ELSE IF AboveThreshold(s.value.confidence)
      THEN [scan EXCEPT !.st = "timer", !.confidence = s.value.confidence,
                        !.payload = Obj(s.value.extractedData)]
      ELSE [scan EXCEPT !.st = "low", !.confidence = s.value.confidence]

\* processLabelImage after its await (lines 155-179); of a CameraCapture
\* that is unmounted, the state is not set.
LabelScanSettled(i, s) ==
  /\ scans' = [scans EXCEPT ![i] = LabelOutcome(scans[i], s)]
  /\ captureError' = IF scans[i].alive /\ ~(s.ok /\ AboveThreshold(s.value.confidence))
                       THEN ScanError(s)
                       ELSE captureError
  /\ isProcessing' = IF scans[i].alive THEN FALSE ELSE isProcessing

\* A call of scanLabel settles and processLabelImage runs to its end.
labelScanSettles ==
  /\ \E i \in DOMAIN scans :
        /\ scans[i].kind = "label"
        /\ scans[i].st = "pending"
        /\ \E c \in LabelSamples : LabelScanSettled(i, Settle(c, now, now))
  /\ UNCHANGED <<appVars, now, captures>>
  /\ UNCHANGED callVars
  /\ UNCHANGED <<camVars, dbVars>>

\* The timer of processLabelImage or of "Simulate Extraction" fires (lines
\* 159-161 and 399-401): onCapture, which is Home.handleLabelScanned.
labelTimerFires ==
  /\ \E i \in DOMAIN scans :
        /\ scans[i].kind \in {"label", "simulate"}
        /\ scans[i].st = "timer"
        /\ handleLabelScanned(scans[i].payload)
        /\ LeaveCapture([scans EXCEPT ![i] = Delivered(scans[i])])
  /\ UNCHANGED <<currentReport, saved, reports, dbError, now>>
  /\ UNCHANGED callVars
  /\ UNCHANGED <<camVars, dbVars>>

\* The button "Simulate Extraction" of the overlay (part_002, lines 356-407).
simulateExtraction ==
  /\ currentScreen = "scan-label"
  /\ isProcessing
  /\ Len(scans) < MaxScans
  /\ isProcessing' = FALSE
  /\ scans' = Append(scans, SimulatedScan(MockData(now)))
  /\ UNCHANGED <<captures, captureError>>
  /\ UNCHANGED <<appVars, now>>
  /\ UNCHANGED callVars
  /\ UNCHANGED <<camVars, dbVars>>

\* The button "Test Mode" (part_002, lines 279-327).
testMode ==
  /\ currentScreen = "scan-label"
  /\ handleLabelScanned(TestData(now))
  /\ LeaveCapture(scans)
  /\ UNCHANGED <<currentReport, saved, reports, dbError, now>>
  /\ UNCHANGED callVars
  /\ UNCHANGED <<camVars, dbVars>>

\* CameraCapture.deleteCapture (part_002, lines 236-243).
deleteCapture ==
  /\ currentScreen \in {"scan-label", "inspect-equipment"}
  /\ \E index \in DOMAIN captures :
        captures' = [j \in 1 .. Len(captures) - 1 |->
                       IF j < index THEN captures[j] ELSE captures[j + 1]]
  /\ UNCHANGED <<isProcessing, captureError, scans>>
  /\ UNCHANGED <<appVars, now>>
  /\ UNCHANGED callVars
  /\ UNCHANGED <<camVars, dbVars>>

\* The button "Analyze Equipment with AI" (part_002, lines 432-441) and
\* processEquipmentImages up to its await (lines 182-192).
analyzeEquipmentClicked ==
  /\ currentScreen = "inspect-equipment"
  /\ SuccessBanner
  /\ Len(scans) < MaxScans
  /\ isProcessing' = TRUE
  /\ captureError' = Null
  /\ scans' = Append(scans, EquipmentScan(currentEquipment, captures))
  /\ UNCHANGED captures
  /\ UNCHANGED <<appVars, now>>
  /\ UNCHANGED callVars
  /\ UNCHANGED <<camVars, dbVars>>

\* The call of analyzeEquipment as processEquipmentImages finds it settled:
\* the report is built of what the closure holds (lines 194-218).
AnalysisOutcome(scan, s) ==
  IF s.ok
    THEN [scan EXCEPT !.st = "timer",
                      !.payload = NewReport(scan.equipment, <<"U", "n", "i", "d", "e", "n", "t", "i", "f", "i", "e", "d", " ", "e", "q", "u", "i", "p", "m", "e", "n", "t">>,
                                            EquipmentImages(scan.captures), s.value, now)]
    ELSE [scan EXCEPT !.st = "rejected"]

\* processEquipmentImages after its await (lines 193-233).
AnalysisScanSettled(i, s) ==
  /\ scans' = [scans EXCEPT ![i] = AnalysisOutcome(scans[i], s)]
  /\ captureError' = IF scans[i].alive /\ ~s.ok
                       THEN ProcessingFailed("Error analyzing equipment", s.error)
                       ELSE captureError
  /\ isProcessing' = IF scans[i].alive THEN FALSE ELSE isProcessing

\* A call of analyzeEquipment settles and processEquipmentImages runs to its
\* end.
analysisSettles ==
  /\ \E i \in DOMAIN scans :
        /\ scans[i].kind = "equipment"
        /\ scans[i].st = "pending"
        /\ \E c \in AnalysisSamples : AnalysisScanSettled(i, Analyse(c, now, now))
  /\ UNCHANGED <<appVars, now, captures>>
  /\ UNCHANGED callVars
  /\ UNCHANGED <<camVars, dbVars>>

\* The timer of processEquipmentImages fires (lines 221-223): onCapture,
\* which is Home.handleInspectionComplete; a form that was shown is
\* unmounted.
reportTimerFires ==
  /\ \E i \in DOMAIN scans :
        /\ scans[i].kind = "equipment"
        /\ scans[i].st = "timer"
        /\ handleInspectionComplete(scans[i].payload)
        /\ LeaveCapture([scans EXCEPT ![i] = Delivered(scans[i])])
  /\ formData' = FormInitial
  /\ UNCHANGED <<currentEquipment, saved, reports, dbError, now>>
  /\ UNCHANGED callVars
  /\ UNCHANGED <<camVars, dbVars>>

\* The scan of the label step by step, with what of Home it moves.
ScanNext ==
  \/ Tick
  \/ Navigate
  \/ onBack
  \/ handleFileUploadLabel
  \/ labelScanSettles
  \/ labelTimerFires
  \/ simulateExtraction
  \/ testMode
  \/ deleteCapture

ScanSpec == Init /\ [][ScanNext]_vars

\* The inspection step by step, with the ways to it and from it: the scan of
\* the label taken in one step, the form, the history and the results.
InspectNext ==
  \/ Tick
  \/ Navigate
  \/ openSettings
  \/ openHistory
  \/ onSelectReport
  \/ onBack
  \/ handleFileUploadLabel
  \/ labelScanSettles
  \/ labelTimerFires
  \/ handleSubmit
  \/ handleFileUploadEquipment
  \/ deleteCapture
  \/ analyzeEquipmentClicked
  \/ analysisSettles
  \/ reportTimerFires
  \/ DemoReport

InspectSpec == Init /\ [][InspectNext]_vars

(***************************************************************************)
(* The camera of a CameraCapture (part_002, lines 48-82 and 245-247), the  *)
(* component taken on its own: its parent mounts and unmounts it.  A       *)
(* stream is the index of its entry in tracks, 0 is null.  initCamera and  *)
(* the cleanup of the effect read the state stream of the render they      *)
(* were made in, and the effect is made anew only when facingMode changes. *)
(***************************************************************************)
\* getUserMedia may be called once more.
MayAskForCamera ==
  Len(tracks) + mediaRequests.mounted + mediaRequests.unmounted < MaxStreams

\* stream.getTracks().forEach((track) => track.stop()), under if (stream).
Stopped(ts, s) == IF s # 0 THEN [ts EXCEPT ![s] = FALSE] ELSE ts

\* initCamera up to its await (lines 48-58), in a render whose state stream
\* is s, the tracks being ts.
initCamera(s, ts) ==
  /\ cameraError' = Null
  /\ tracks' = Stopped(ts, s)
  /\ mediaRequests' = [mediaRequests EXCEPT !.mounted = @ + 1]

\* The component is mounted: its state is initial (lines 36-43) and the
\* effect runs in the first render (lines 74-82).
mountCamera ==
  /\ ~mounted
  /\ MayAskForCamera
  /\ mounted' = TRUE
  /\ facingMode' = "environment"
  /\ stream' = 0
  /\ initCamera(0, tracks)
  /\ effectStream' = 0
  /\ UNCHANGED <<callVars, appVars, capVars, dbVars, now>>

\* switchCamera (lines 245-247): facingMode changes, the cleanup of the
\* effect that ran last is run and the effect runs in the new render.
switchCamera ==
  /\ mounted
  /\ MayAskForCamera
  /\ facingMode' = IF facingMode = "user" THEN "environment" ELSE "user"
  /\ initCamera(stream, Stopped(tracks, effectStream))
  /\ effectStream' = stream
  /\ UNCHANGED <<mounted, stream>>
  /\ UNCHANGED <<callVars, appVars, capVars, dbVars, now>>

\* getUserMedia resolves with a new stream and initCamera runs to its end
\* (lines 59-66); of a component that is unmounted the state is not set.
getUserMediaResolves ==
  /\ \E of \in {"mounted", "unmounted"} :
        /\ mediaRequests[of] > 0
        /\ mediaRequests' = [mediaRequests EXCEPT ![of] = @ - 1]
        /\ stream' = IF of = "mounted" THEN Len(tracks) + 1 ELSE stream
  /\ tracks' = Append(tracks, TRUE)
  /\ UNCHANGED <<mounted, facingMode, cameraError, effectStream>>
  /\ UNCHANGED <<callVars, appVars, capVars, dbVars, now>>

\* getUserMedia rejects (lines 67-71).
getUserMediaRejects ==
  /\ \E of \in {"mounted", "unmounted"} :
        /\ mediaRequests[of] > 0
        /\ mediaRequests' = [mediaRequests EXCEPT ![of] = @ - 1]
        /\ cameraError' = IF of = "mounted"
                            THEN Str(<<"C", "o", "u", "l", "d", " ", "n", "o", "t", " ", "a", "c", "c", "e", "s", "s", " ", "c", "a", "m", "e", "r", "a", ".", " ", "U", "s", "e", " ", "t", "h", "e", " ", "f", "i", "l", "e", " ", "u", "p", "l", "o", "a", "d", " ", "o", "p", "t", "i", "o", "n", ".">>)
                            ELSE cameraError
  /\ UNCHANGED <<mounted, facingMode, stream, effectStream, tracks>>
  /\ UNCHANGED <<callVars, appVars, capVars, dbVars, now>>

\* The component is unmounted: the cleanup of the effect that ran last is
\* run (lines 77-81) and the state is gone.
unmountCamera ==
  /\ mounted
  /\ mounted' = FALSE
  /\ tracks' = Stopped(tracks, effectStream)
  /\ mediaRequests' = [mounted |-> 0,
                       unmounted |-> mediaRequests.unmounted + mediaRequests.mounted]
  /\ facingMode' = "environment"
  /\ stream' = 0
  /\ cameraError' = Null
  /\ effectStream' = 0
  /\ UNCHANGED <<callVars, appVars, capVars, dbVars, now>>

CameraNext ==
  \/ mountCamera
  \/ switchCamera
  \/ getUserMediaResolves
  \/ getUserMediaRejects
  \/ unmountCamera

CameraSpec == Init /\ [][CameraNext]_vars

(***************************************************************************)
(* useLocalStorage.performDBOperation (part_000, lines 346-369) step by    *)
(* step, whatever the operation: openDB (lines 300-344) settles, then the  *)
(* operation does.                                                         *)
(***************************************************************************)
\* A call of performDBOperation up to its first await (lines 348-351).
performDBOperation ==
  /\ Len(operations) < MaxOperations
  /\ isLoading' = TRUE
  /\ dbError' = NoError
  /\ operations' = Append(operations, [st |-> "opening", db |-> "none", error |-> NoError])
  /\ UNCHANGED <<currentScreen, currentEquipment, currentReport, formData, saved,
                 reports, now>>
  /\ UNCHANGED <<callVars, capVars, camVars>>

\* openDB resolves with a connection (lines 308-310) and the operation
\* starts on it (line 352).
openDBResolves ==
  /\ \E i \in DOMAIN operations :
        /\ operations[i].st = "opening"
        /\ operations' = [operations EXCEPT ![i].st = "running", ![i].db = "open"]
  /\ UNCHANGED <<isLoading, now>>
  /\ UNCHANGED <<callVars, appVars, capVars, camVars>>

\* The catch and the finally of performDBOperation (lines 355-366) on the
\* call i, which rejects with the error it sets.
CatchStorageError(i, err) ==
  /\ operations' = [operations EXCEPT ![i].st = "rejected",
                                      ![i].error = StorageError(err, now)]
  /\ dbError' = StorageError(err, now)
  /\ isLoading' = FALSE

\* openDB rejects (lines 304-306).
openDBRejects ==
  /\ \E i \in DOMAIN operations :
        /\ operations[i].st = "opening"
        /\ CatchStorageError(i, JsError("Error opening database", NoExcerpt))
  /\ UNCHANGED <<currentScreen, currentEquipment, currentReport, formData, saved,
                 reports, now>>
  /\ UNCHANGED <<callVars, capVars, camVars>>

\* The operation resolves: the connection is closed and the call resolves
\* (lines 352-354 and 364-366).
operationResolves ==
  /\ \E i \in DOMAIN operations :
        /\ operations[i].st = "running"
        /\ operations' = [operations EXCEPT ![i].st = "resolved", ![i].db = "closed"]
  /\ isLoading' = FALSE
  /\ UNCHANGED <<appVars, now>>
  /\ UNCHANGED <<callVars, capVars, camVars>>

\* The operation rejects with the error of its request (as in lines 377-381).
operationRejects ==
  /\ \E i \in DOMAIN operations :
        /\ operations[i].st = "running"
        /\ CatchStorageError(i, JsError("request failed", NoExcerpt))
  /\ UNCHANGED <<currentScreen, currentEquipment, currentReport, formData, saved,
                 reports, now>>
  /\ UNCHANGED <<callVars, capVars, camVars>>

DbNext ==
  \/ Tick
  \/ performDBOperation
  \/ openDBResolves
  \/ openDBRejects
  \/ operationResolves
  \/ operationRejects

DbSpec == Init /\ [][DbNext]_vars





(***************************************************************************)
(* What the claims speak of.                                               *)
(***************************************************************************)
\* scanLabel has settled on an answer the model gave.
Answered == pc \in {"done", "failed"} /\ content # <<>>

\* The properties of the JSON value scanLabel read.
Answer == Entries(parsed)
AnswerData == Entries(Get(Answer, K_structuredData))
AnswerMetadata == Get(Answer, K_fieldMetadata)
AnswerConfidence == Get(Answer, K_confidence)

OutMetadata == Entries(result.extractedData[K_fieldMetadata])
NonNull(v) == v.t \notin {"null", "undef"}
Unset(v) == v.t \in {"null", "undef"}
InUnitInterval(v) == v.t = "num" /\ 0 <= v.m /\ v.m <= Pow10(v.e)
NormalizedAt == startTime + result.processingTime

\* C1: in every result of scanLabel, every field of the answer's
\* structuredData with a non-null value has an entry under its key in
\* extractedData.fieldMetadata, also when the answer's fieldMetadata is
\* there and covers some or none of the fields.
C1_EveryFieldHasProvenance ==
  pc = "done" =>
    \A k \in DOMAIN AnswerData : NonNull(AnswerData[k]) => k \in DOMAIN OutMetadata

\* C2: when the answer has no fieldMetadata, every generated entry has the
\* answer's confidence when that is set (any number in [0,1], 0 included),
\* and 0.8 only when it is unset.
C2_GeneratedConfidence ==
  (pc = "done" /\ AnswerMetadata = Undef) =>
    \A k \in DOMAIN OutMetadata :
      LET c == Get(Entries(OutMetadata[k]), K_confidence)
      IN /\ InUnitInterval(AnswerConfidence) => c = AnswerConfidence
         /\ Unset(AnswerConfidence) => c = FieldConfidenceFallback
         /\ c = FieldConfidenceFallback =>
              (Unset(AnswerConfidence) \/ AnswerConfidence = FieldConfidenceFallback)

\* C3: when the answer has a structuredData and no fieldMetadata, the
\* result's fieldMetadata has exactly the keys of structuredData whose value
\* is non-null, each entry with source "scanned".
C3_ExactlyTheNonNullFields ==
  (pc = "done" /\ Get(Answer, K_structuredData).t = "obj" /\ AnswerMetadata = Undef) =>
    /\ result.extractedData[K_fieldMetadata].t = "obj"
    /\ DOMAIN OutMetadata = {k \in DOMAIN AnswerData : AnswerData[k] # Null}
    /\ \A k \in DOMAIN OutMetadata :
         Get(Entries(OutMetadata[k]), K_source) = Str(S_scanned)

C3_Witness ==
  /\ pc = "done"
  /\ AnswerMetadata = Undef
  /\ Get(Answer, K_structuredData).t = "obj"
  /\ DOMAIN AnswerData = {K_brand, K_btu}
  /\ AnswerData[K_brand] = Null
  /\ DOMAIN OutMetadata = {K_btu}

\* C4: every entry of the answer's fieldMetadata is, unchanged, the entry
\* under the same key of the result's fieldMetadata, on the strict and on
\* the fallback path.
C4_ExplicitEntriesKept ==
  pc = "done" =>
    \A k \in DOMAIN Entries(AnswerMetadata) :
      Get(OutMetadata, k) = Entries(AnswerMetadata)[k]

C4_Witness ==
  /\ pc = "done"
  /\ path = "fallback"
  /\ DOMAIN Entries(AnswerMetadata) = {K_brand}
  /\ K_btu \in DOMAIN AnswerData
  /\ OutMetadata[K_brand] = InferredEntry

\* C5: in every result, extractedData.id is the empty string and createdAt
\* and updatedAt are the time of the normalisation, whatever keys the
\* answer's structuredData has.
C5_FreshIdentity ==
  pc = "done" =>
    /\ result.extractedData[K_id] = Str(<<>>)
    /\ result.extractedData[K_createdAt] = DateAt(NormalizedAt)
    /\ result.extractedData[K_updatedAt] = DateAt(NormalizedAt)

\* C6: in every result, confidence is a number in [0,1].
C6_ConfidenceInUnitInterval == pc = "done" => InUnitInterval(result.confidence)

\* C7: the result's confidence is 0.6 when the answer's is absent or null,
\* and the answer's own when that is a number, on both paths.
C7_ConfidenceDefault ==
  pc = "done" =>
    /\ Unset(AnswerConfidence) => result.confidence = ConfidenceDefault
    /\ AnswerConfidence.t = "num" => result.confidence = AnswerConfidence

C7_Witness ==
  /\ pc = "done"
  /\ path = "fallback"
  /\ AnswerConfidence = Null
  /\ result.confidence = Num(6, 1)

\* C8: in every result, rawText is the answer's extractedText, and the empty
\* string when the answer has none.
C8_RawText ==
  pc = "done" =>
    result.rawText = IF K_extractedText \in DOMAIN Answer
                       THEN Answer[K_extractedText] ELSE Str(<<>>)

\* No JSON object is to be had from the cleaned text t: it parses to a value
\* that is no object, or neither it nor its part from the first opening to
\* the last closing brace parses.
NoObjectIn(t) ==
  \/ JSONParse(t).ok /\ JSONParse(t).v.t # "obj"
  \/ /\ ~JSONParse(t).ok
     /\ (~jsonMatch(t).found \/ ~JSONParse(jsonMatch(t).text).ok)

\* C9: when no JSON object can be recovered from the cleaned text, scanLabel
\* fails, with an error that carries at most the first 300 characters of the
\* cleaned text, and gives no result.
C9_NoObjectFails ==
  (Answered /\ NoObjectIn(cleanedContent)) =>
    /\ pc = "failed"
    /\ result = NoResult
    /\ error.code = "PROCESSING_ERROR"
    /\ error.details.originalError.excerpt =
         SubSeq(cleanedContent, 1, IF Len(cleanedContent) < 300
                                     THEN Len(cleanedContent) ELSE 300)
           \o <<".", ".", ".">>

\* C10: when the cleaned text does not parse but its part from the first
\* opening to the last closing brace is a JSON object, scanLabel succeeds
\* with the result of scanning that part alone.
C10_FallbackAsStrict ==
  (/\ Answered
   /\ ~JSONParse(cleanedContent).ok
   /\ jsonMatch(cleanedContent).found
   /\ JSONParse(jsonMatch(cleanedContent).text).ok) =>
    /\ pc = "done"
    /\ path = "fallback"
    /\ Settle(jsonMatch(cleanedContent).text, startTime, NormalizedAt).path = "strict"
    /\ result = Settle(jsonMatch(cleanedContent).text, startTime, NormalizedAt).value

C10_Witness ==
  /\ pc = "done"
  /\ path = "fallback"
  /\ StartsWith(content, ProseBefore)
  /\ ~JSONParse(cleanedContent).ok
  /\ AnswerMetadata = Undef
  /\ AnswerConfidence = Undef
  /\ OutMetadata = Put(EmptyProps, K_brand, ScannedEntry(Undef))
  /\ result.confidence = ConfidenceDefault

\* analyzeEquipment has settled on an answer the model gave.
AnalysisAnswered == pc \in {"analysed", "analysisFailed"} /\ content # <<>>

\* C11: when the cleaned text of an answer to analyzeEquipment does not
\* parse but its part from the first opening to the last closing brace is a
\* JSON object, analyzeEquipment succeeds with what that object holds.
C11_AnalysisRecoversObject ==
  (/\ AnalysisAnswered
   /\ ~JSONParse(cleanedContent).ok
   /\ jsonMatch(cleanedContent).found
   /\ JSONParse(jsonMatch(cleanedContent).text).ok) =>
    /\ pc = "analysed"
    /\ result = Analyse(jsonMatch(cleanedContent).text, startTime,
                        startTime + result.processingTime).value

\* C12: in every result of analyzeEquipment on a JSON object, failures and
\* generalRecommendations are arrays: the empty array when the object has no
\* failures or no recommendations, and the object's own array otherwise.
C12_SequencesNeverUndefined ==
  (pc = "analysed" /\ parsed.t = "obj") =>
    /\ result.failures.t = "arr"
    /\ result.generalRecommendations.t = "arr"
    /\ K_failures \notin DOMAIN parsed.o => result.failures = Arr(<<>>)
    /\ K_recommendations \notin DOMAIN parsed.o =>
         result.generalRecommendations = Arr(<<>>)
    /\ (K_failures \in DOMAIN parsed.o /\ parsed.o[K_failures].t = "arr") =>
         result.failures = parsed.o[K_failures]
    /\ (K_recommendations \in DOMAIN parsed.o
          /\ parsed.o[K_recommendations].t = "arr") =>
         result.generalRecommendations = parsed.o[K_recommendations]

\* The errors fileToBase64 rejects with.
FileErrors == {"Error reading file", "Error loading image", "Could not create canvas context"}

\* C13: a call of scanLabel or analyzeEquipment sends at most one request to
\* the model; when it fails it gives no result and rejects with an AppError
\* of code PROCESSING_ERROR whose details hold the error that was thrown;
\* and it resolves only when the model answered with a text, not empty, that
\* one of its parses accepted.
C13_FailureIsTerminal ==
  /\ requests <= 1
  /\ pc \in {"failed", "analysisFailed"} =>
       /\ result = NoResult
       /\ error.code = "PROCESSING_ERROR"
       /\ error.details.originalError.name \in {"Error", "SyntaxError", "TypeError"}
       /\ requests = 0 <=> error.details.originalError.message \in FileErrors
  /\ pc \in {"done", "analysed"} =>
       /\ error = NoError
       /\ requests = 1
       /\ content # <<>>
       /\ path \in {"strict", "fallback"}
       /\ path = "strict" => JSONParse(cleanedContent).ok
       /\ path = "fallback" => JSONParse(jsonMatch(cleanedContent).text).ok
       /\ pc = "analysed" => path = "strict"

C13_Witness ==
  /\ pc = "analysisFailed"
  /\ requests = 1
  /\ content # <<>>
  /\ error.details.originalError = SyntaxError
  /\ result = NoResult

\* C14: whatever tag follows the opening fence of the model's answer, the
\* cleaned text is that of the same answer with no tag after the fence.
C14_FenceTagAgnostic ==
  \A tag \in FenceTags :
    (content # <<>> /\ StartsWith(content, Fence \o tag \o <<"\n">>)) =>
      cleanedContent =
        cleanJsonResponse(Fence \o Substring(content, 3 + Len(tag), Len(content)))

\* C15: a JSON body with an opening fence, a closing fence, both or none,
\* and with white space around it or not, is cleaned to the body; and
\* cleaning a cleaned text again leaves it as it is.
C15_PartialFences ==
  /\ \A b \in FencedBodies : content \in FenceForms(b) => cleanedContent = b
  /\ content # <<>> => cleanJsonResponse(cleanedContent) = cleanedContent

C15_Witness ==
  /\ pc = "done"
  /\ content = <<" ", "\n", "{", "}", "\n", Grave, Grave, Grave, "\n", " ">>
  /\ cleanedContent = <<"{", "}">>
  /\ cleanJsonResponse(cleanedContent) = cleanedContent

\* The keys scanLabel itself writes into extractedData.
OwnKeys == {K_id, K_createdAt, K_updatedAt, K_fieldMetadata}

\* The answer was clean JSON with its metadata complete: an extracted text,
\* a confidence, and an entry for every field of structuredData.
CleanAndComplete ==
  /\ path = "strict"
  /\ content = cleanedContent
  /\ AnswerMetadata.t = "obj"
  /\ DOMAIN AnswerData \subseteq DOMAIN AnswerMetadata.o
  /\ AnswerConfidence.t = "num"
  /\ K_extractedText \in DOMAIN Answer

\* What a result keeps of a clean and complete answer.
KeepsAnswer ==
  /\ result.confidence = AnswerConfidence
  /\ result.rawText = Answer[K_extractedText]
  /\ result.extractedData[K_fieldMetadata] = AnswerMetadata

\* C16, as the specification states it: the keys of extractedData are those
\* of the answer's structuredData and id, createdAt, updatedAt and
\* fieldMetadata; every value of structuredData is copied as it is; and of a
\* clean and complete answer nothing is changed.
C16_RoundTrip ==
  pc = "done" =>
    /\ DOMAIN result.extractedData = DOMAIN AnswerData \cup OwnKeys
    /\ \A k \in DOMAIN AnswerData : result.extractedData[k] = AnswerData[k]
    /\ CleanAndComplete => KeepsAnswer

\* C16, amended: the keys of extractedData are those of the answer's
\* structuredData and id, createdAt, updatedAt and fieldMetadata; every
\* value of structuredData under a key other than fieldMetadata is copied as
\* it is, and fieldMetadata holds the provenance, whatever structuredData
\* has under that key; and of a clean and complete answer nothing else is
\* changed.
C16_RoundTripButMetadata ==
  pc = "done" =>
    /\ DOMAIN result.extractedData = DOMAIN AnswerData \cup OwnKeys
    /\ \A k \in DOMAIN AnswerData \ {K_fieldMetadata} :
         result.extractedData[k] = AnswerData[k]
    /\ Truthy(AnswerMetadata) => result.extractedData[K_fieldMetadata] = AnswerMetadata
    /\ ~Truthy(AnswerMetadata) =>
         result.extractedData[K_fieldMetadata] =
           Obj(MetadataFor(AnswerData, AnswerConfidence))
    /\ CleanAndComplete => KeepsAnswer

C16_Witness ==
  /\ pc = "done"
  /\ DOMAIN AnswerData = {K_id, K_fieldMetadata}
  /\ AnswerMetadata = Obj(Put(EmptyProps, K_brand, InferredEntry))
  /\ result.extractedData[K_id] = AnswerData[K_id]
  /\ result.extractedData[K_fieldMetadata] # AnswerData[K_fieldMetadata]
  /\ result.extractedData[K_fieldMetadata] = AnswerMetadata

\* C17, as the specification states it: a JSON object without a
\* structuredData never makes scanLabel fail; the result has no structured
\* field, an empty fieldMetadata, and the answer's confidence or the default.
C17_NoStructuredData ==
  /\ (pc = "failed" /\ content # <<>> /\ JSONParse(cleanedContent).ok) =>
       ~(/\ JSONParse(cleanedContent).v.t = "obj"
         /\ K_structuredData \notin DOMAIN JSONParse(cleanedContent).v.o)
  /\ (pc = "done" /\ parsed.t = "obj" /\ K_structuredData \notin DOMAIN parsed.o) =>
       /\ DOMAIN result.extractedData = OwnKeys
       /\ OutMetadata = EmptyProps
       /\ result.confidence =
            IF Unset(AnswerConfidence) THEN ConfidenceDefault ELSE AnswerConfidence

\* C17, amended: a JSON object without a structuredData never makes
\* scanLabel fail; the result has no structured field, the answer's own
\* fieldMetadata when it has one and an empty one otherwise, and the
\* answer's confidence or the default.
C17_NoStructuredDataOwnMetadata ==
  /\ (pc = "failed" /\ content # <<>> /\ JSONParse(cleanedContent).ok) =>
       ~(/\ JSONParse(cleanedContent).v.t = "obj"
         /\ K_structuredData \notin DOMAIN JSONParse(cleanedContent).v.o)
  /\ (pc = "done" /\ parsed.t = "obj" /\ K_structuredData \notin DOMAIN parsed.o) =>
       /\ DOMAIN result.extractedData = OwnKeys
       /\ OutMetadata = Entries(OrEmpty(AnswerMetadata))
       /\ result.confidence =
            IF Unset(AnswerConfidence) THEN ConfidenceDefault ELSE AnswerConfidence

C17_Witness ==
  /\ pc = "done"
  /\ parsed.t = "obj"
  /\ K_structuredData \notin DOMAIN parsed.o
  /\ AnswerConfidence = Undef
  /\ DOMAIN result.extractedData = OwnKeys
  /\ OutMetadata = Put(EmptyProps, K_brand, InferredEntry)
  /\ result.confidence = ConfidenceDefault

\* The id of the record a submission of the form passed to onSave.
SavedId(i) == saved[i].record[K_id]

\* The j-th submission saved again the record the form was filled from.
SavedAgain(j) ==
  /\ Truthy(saved[j].initialData)
  /\ Get(Entries(saved[j].initialData), K_id) = SavedId(j)

\* C18: every record EquipmentForm.handleSubmit passes to onSave has an id
\* that is not empty, and no two submissions give the same id, unless the
\* later one saves again the record that has it.
C18_UniqueIds ==
  /\ \A i \in DOMAIN saved : SavedId(i).t = "str" /\ SavedId(i).s # <<>>
  /\ \A i, j \in DOMAIN saved : (i < j /\ SavedId(i) = SavedId(j)) => SavedAgain(j)

\* C19: every record the form saves has the time of the save as its
\* updatedAt, not earlier than the updatedAt of the record the form was
\* filled from, and has the createdAt of that record.
C19_UpdatedAtIsSaveTime ==
  \A i \in DOMAIN saved :
    /\ saved[i].record[K_updatedAt] = DateAt(saved[i].at)
    /\ Truthy(saved[i].initialData) =>
         /\ saved[i].record[K_updatedAt].ms
              >= Entries(saved[i].initialData)[K_updatedAt].ms
         /\ saved[i].record[K_createdAt] = Entries(saved[i].initialData)[K_createdAt]

\* The steps a status may take.
StatusSteps ==
  {<<"draft", "processing">>, <<"processing", "completed">>, <<"processing", "error">>}

\* C20: the status of a stored report changes only from draft to processing
\* and from processing to completed or to error; the status of a report
\* that is completed or error does not change.
C20_StatusTransitions ==
  [][\A id \in DOMAIN reports :
       /\ id \in DOMAIN reports'
       /\ \/ reports'[id].status = reports[id].status
          \/ <<reports[id].status, reports'[id].status>> \in StatusSteps]_vars

\* A report has its completion date exactly when it is completed.
CompletedIffDated(r) == (r.completedAt # Undef) <=> (r.status = "completed")

\* The calls of analyzeEquipment that have given a report, not yet handed
\* over.
BuiltReports == {i \in DOMAIN scans : scans[i].kind = "equipment" /\ scans[i].st = "timer"}

\* C21: in every report the application builds or lists (by
\* processEquipmentImages, by the button of the demonstration report, in
\* the list of the history), completedAt is set exactly when the status is
\* "completed".
C21_CompletedAtIffCompleted ==
  /\ \A i \in DOMAIN mockReports : CompletedIffDated(mockReports[i])
  /\ \A i \in BuiltReports : CompletedIffDated(scans[i].payload)
  /\ currentReport # Null => CompletedIffDated(currentReport)

C21_Witness ==
  /\ currentScreen = "results"
  /\ currentReport # Null
  /\ currentReport.status = "completed"
  /\ currentReport.completedAt = DateAt(1)
  /\ Len(currentReport.equipmentImages) = 2

\* confidence > 0.3, of a number.
ExceedsThreeTenths(v) == v.t = "num" /\ 10 * v.m > 3 * Pow10(v.e)

\* C22: a scan of the label is set to hand its record to onCapture only
\* when the confidence of its result is strictly greater than 0.3; with a
\* confidence of 0.3 or less the message of low confidence is set, the
\* screen stays, and the record is never handed over.
C22_LowConfidenceGated ==
  [][\A i \in DOMAIN scans :
       /\ (scans[i].kind = "label" /\ scans[i].st = "pending"
             /\ scans'[i].st \in {"timer", "delivered"})
            => ExceedsThreeTenths(scans'[i].confidence)
       /\ (scans[i].kind = "label" /\ scans[i].st = "pending" /\ scans'[i].st = "low")
            => /\ ~ExceedsThreeTenths(scans'[i].confidence)
               /\ currentScreen' = currentScreen
               /\ scans[i].alive =>
                    captureError' = LowConfidence(scans'[i].confidence)
       /\ (scans[i].kind = "label" /\ scans[i].st = "pending")
            => scans'[i].st \in {"pending", "timer", "low", "rejected"}
       /\ scans[i].st = "low" => scans'[i].st = "low"]_vars

C22_Witness ==
  /\ currentScreen = "scan-label"
  /\ \E i \in DOMAIN scans :
        /\ scans[i].st = "low"
        /\ scans[i].alive
        /\ scans[i].confidence = Num(3, 1)
  /\ captureError = LowConfidence(Num(3, 1))

\* C23: when scanLabel rejects, processLabelImage leaves an error that is
\* not null and isProcessing false, the banner of success is not shown,
\* and the scan never hands a record to onCapture.
C23_RejectionLeavesError ==
  [][\A i \in DOMAIN scans :
       /\ (scans[i].kind = "label" /\ scans[i].st = "pending" /\ scans[i].alive
             /\ scans'[i].st = "rejected")
            => /\ captureError' # Null
               /\ ~isProcessing'
               /\ ~SuccessBanner'
       /\ scans[i].st = "rejected" => scans'[i].st = "rejected"]_vars

C23_Witness ==
  /\ currentScreen = "scan-label"
  /\ \E i \in DOMAIN scans : scans[i].st = "rejected" /\ scans[i].alive
  /\ captureError # Null
  /\ captureError.message = "Error processing image"
  /\ ~isProcessing

\* C24: a scan whose CameraCapture is gone (the user went back to home, or
\* "Simulate Extraction" took them to the form) changes neither the screen
\* nor the equipment in hand when it completes or its timer fires.
C24_NoLateCompletion ==
  [][\A i \in DOMAIN scans :
       (scans[i].kind = "label" /\ ~scans[i].alive /\ scans'[i].st # scans[i].st)
         => /\ currentScreen' = currentScreen
            /\ currentEquipment' = currentEquipment]_vars

\* C25: isProcessing is true, and the banner of success not shown, while a
\* call that the CameraCapture started is under way, also when calls
\* overlap.
C25_ProcessingWhilePending ==
  \A i \in DOMAIN scans :
    (scans[i].st = "pending" /\ scans[i].alive) => (isProcessing /\ ~SuccessBanner)

\* The streams whose tracks run.
LiveStreams == {s \in DOMAIN tracks : tracks[s]}

\* C26: at most one stream that getUserMedia gave is live at a time, and
\* none is live when the component is unmounted.
C26_StreamLifecycle ==
  /\ Cardinality(LiveStreams) <= 1
  /\ ~mounted => LiveStreams = {}

InFlight(op) == op.st \in {"opening", "running"}

\* C27: a call of performDBOperation that has settled has closed the
\* connection it opened; one that rejected did so with an AppError of code
\* STORAGE_ERROR; and isLoading is false only when no call is in flight.
C27_StorageOperationDiscipline ==
  /\ \A i \in DOMAIN operations :
        /\ ~InFlight(operations[i]) => operations[i].db # "open"
        /\ operations[i].st = "rejected" => operations[i].error.code = "STORAGE_ERROR"
  /\ ~isLoading => \A i \in DOMAIN operations : ~InFlight(operations[i])

\* C28: on the screen "results" there is a report in hand, and on the screen
\* "inspect-equipment" there is an equipment in hand.
C28_ScreenHasItsData ==
  /\ currentScreen = "results" => currentReport # Null
  /\ currentScreen = "inspect-equipment" => currentEquipment # Null

C28_Witness ==
  /\ currentScreen = "results"
  /\ currentReport # Null
  /\ \E i \in DOMAIN scans :
        /\ scans[i].kind = "equipment"
        /\ scans[i].st = "delivered"
        /\ ~scans[i].alive

\* C29: the card "Manual Inspection" of the home screen opens the form with
\* no data filled in, whatever was done before.
C29_ManualInspectionOpensEmpty ==
  [][(HomeShown /\ currentScreen' = "data-form" /\ scans' = scans)
       => formData' = FormInitial]_vars

\* The ids of the images of a report are pairwise distinct.
DistinctImageIds(images) ==
  \A j, k \in DOMAIN images : j # k => images[j].id # images[k].id

\* C30: every report processEquipmentImages builds has the id of its
\* equipment as equipmentId, and one image for each capture analysed, in
\* the order of the captures, with ids pairwise distinct.
C30_ReportMatchesEquipmentAndCaptures ==
  \A i \in BuiltReports :
    /\ scans[i].payload.equipmentId = Get(Entries(scans[i].payload.equipment), K_id)
    /\ Len(scans[i].payload.equipmentImages) = Len(scans[i].captures)
    /\ \A j \in DOMAIN scans[i].captures :
          /\ scans[i].payload.equipmentImages[j].capturedAt = scans[i].captures[j].timestamp
          /\ scans[i].payload.equipmentImages[j].url = scans[i].captures[j].preview
    /\ DistinctImageIds(scans[i].payload.equipmentImages)

============================================================================
